---------------------------- MODULE Spec2Model ----------------------------
(***************************************************************************)
(* A model of smartlink-cli: the CRX signature scan and manifest          *)
(* extraction (utils/extensions), the version-directory naming, the       *)
(* per-profile installers of Vivaldi and Opera, the Firefox installer's   *)
(* error handling, the install-extension command and the process          *)
(* controller (utils/browser).                                            *)
(*                                                                         *)
(* The module holds several specifications over one set of variables;     *)
(* each specification moves its own group of variables and leaves the     *)
(* others at their idle values:                                            *)
(*   SpecScan     the archive extractor on every small byte buffer        *)
(*   SpecVersion  the version string -> directory name mapping            *)
(*   SpecClose    BrowserController.close                                 *)
(*   Spec         one run of installExtensionCommand                      *)
(***************************************************************************)
EXTENDS Integers, Sequences, FiniteSets, TLC

\* ------------------------------------------------------------------ bounds
\* longest byte buffer the scan is run on
MaxBufLen == 6
\* longest version string the directory-name mapping is applied to
MaxVerLen == 4
\* number of profile directories the browser data directory holds
MaxProfiles == 2
\* most processes one listing returns
MaxPids == 2
\* number of times the command is run on the same machine
MaxRuns == 2

VARIABLES
    \* --- SpecScan: one archive through both scans
    scanCrx,        \* the archive: [bytes, payload, manifest]
    scanPc,         \* "start" | "manifest" | "installed"
    scanManifest,   \* what extractManifestFromCrx did and returned
    scanInstall,    \* what the install-path extraction did
    \* --- SpecVersion
    verManifest,    \* a manifest, with or without a version field
    verPc,          \* "start" | "done"
    verResult,      \* [threw, name]
    \* --- SpecClose: one call of BrowserController.close
    closeBrowser,   \* the browser to close
    closePlatform,  \* os.platform(): "win32" or "posix"
    closePc,        \* "list" | "kill" | "returned" | "threw"
    closeAlias,     \* index into BrowserProcesses[browser]
    closePids,      \* the pids the listing of the current alias returned
    closePid,       \* index into closePids
    closeLog,       \* what happened: [listFailed, killFailed, issued, listed]
    \* --- Spec: one run of installExtensionCommand
    browser,        \* argv.browser
    platform,       \* os.platform(): "win32" or "posix"
    options,        \* InstallerOptions
    archive,        \* the archive the web store serves
    fs,             \* the profile directories of the browser
    fs0,            \* fs as it was when the run began
    run,            \* the number of the run
    prev,           \* the runs before: [outcome, versionDir, cmd] of each
    registry,       \* [tried, written]: the hives of the forcelist entry
    steps,          \* the steps of the run so far, in order
    downloadDir,    \* [exists, crx, zip]: the download directory
    pc,             \* the position of the run
    profiles,       \* the profiles getProfiles returned
    cur,            \* index of the loop's profile in profiles
    manifest,       \* the manifest extractManifestFromCrx returned
    preferences,    \* the parsed Preferences of the loop's profile
    versionDir,     \* versionFormatted of the loop's profile
    outcome,        \* per profile: what the loop did with it
    launches,       \* the profiles openWithUrl was called for, in order
    failure,        \* the step that failed: "none" | "profiles" | ...
    cmd,            \* [state, loggedSuccess, exitCode] of the command
    \* --- SpecLocate: one call of getProfiles
    locIn,          \* [browser, disk, options]: what the locator is given
    locPc,          \* "start" | "done"
    locOut,         \* [threw, profiles]: what it returned
    \* --- SpecOpen: one call of BrowserController.openWithUrl
    openIn,         \* [browser, platform, profileName]
    openPc,         \* "build" | "exec" | "delay" | "close" | "returned"
                    \* | "threw"
    openCommand,    \* the launch command that was built
    openLog,        \* what was done, in order
    \* --- SpecIni: one call of parseProfilesIni
    iniLines,       \* the lines of profiles.ini
    iniPos,         \* the index of the next line of the forEach
    iniCur,         \* currentProfile, <<>> for null
    iniProfiles,    \* the profiles array
    \* --- SpecXpi: runs of FirefoxExtensionInstaller.installExtension
    xpiOptions,     \* [forceReinstall]
    xpiArchive,     \* the XPI the add-ons site serves: [manifest, geckoId]
    xpiDisk,        \* per profile: [xpis, json], the files of extensions/
                    \* and extensions.json
    xpiDisk0,       \* xpiDisk as it was when the run began
    xpiRun,         \* the number of the run, also its Date.now()
    xpiPc,          \* "check" | "close" | "download" | "open" | "profile"
                    \* | "returned"
    xpiCur,         \* index of the profile of installXpi's loop
    xpiId,          \* extensionId of installXpi
    xpiLog,         \* what the run did, in order
    \* --- SpecDownload: one call of downloadExtension
    dlIn,           \* [installer, downloadDir]
    dlPc,           \* "start" | "request1" | "request2" | "body" | "done"
    dlStatuses,     \* the status codes of the responses, in order
    dlFile,         \* [exists, chunks, finished]: the file being written
    dlResult,       \* the promise: "pending" | "resolved" | "rejected"
    \* --- SpecRace: two installers at work on one profile
    raceFile,       \* the profile's Preferences file
    racePc,         \* per installer: "read" | "extract" | "write" | "done"
    raceMem,        \* per installer: the Preferences object it parsed
    raceLog         \* the reads and writes of the file, in order

scanVars == <<scanCrx, scanPc, scanManifest, scanInstall>>
verVars == <<verManifest, verPc, verResult>>
closeVars ==
    <<closeBrowser, closePlatform, closePc, closeAlias, closePids, closePid,
      closeLog>>
runVars ==
    <<browser, platform, options, archive, fs, fs0, run, prev, registry, steps,
      downloadDir, pc,
      profiles, cur, manifest, preferences, versionDir, outcome, launches, failure, cmd>>
locVars == <<locIn, locPc, locOut>>
openVars == <<openIn, openPc, openCommand, openLog>>
iniVars == <<iniLines, iniPos, iniCur, iniProfiles>>
xpiVars ==
    <<xpiOptions, xpiArchive, xpiDisk, xpiDisk0, xpiRun, xpiPc, xpiCur, xpiId,
      xpiLog>>
dlVars == <<dlIn, dlPc, dlStatuses, dlFile, dlResult>>
raceVars == <<raceFile, racePc, raceMem, raceLog>>
restVars == <<iniVars, xpiVars, dlVars, raceVars>>
vars == <<scanVars, verVars, closeVars, runVars, locVars, openVars, restVars>>

\* ---------------------------------------------------------------- helpers
Min(S) == CHOOSE x \in S : \A y \in S : x <= y

SeqsUpTo(S, n) == UNION {[1..k -> S] : k \in 0..n}

\* ------------------------------------------------- the archive extractor
\* 'P' 'K' 0x03 0x04, the ZIP local-file-header signature
ZipSignature == <<80, 75, 3, 4>>

\* the bytes a buffer is made of: the signature's bytes and one other byte
Bytes == {0, 3, 4, 75, 80}

\* crxData[i] === 0x50 && crxData[i+1] === 0x4b && ... (i counts from 0)
MatchAt(data, i) ==
    /\ i >= 0
    /\ i + 4 <= Len(data)
    /\ \A j \in 1..4 : data[i + j] = ZipSignature[j]

\* the offsets the loop `for (i = 0; i < data.length - 4; i++)` visits
ScanRange(data) == 0..(Len(data) - 5)

\* let zipStartOffset = 0; for (...) if (match) { zipStartOffset = i; break; }
ZipStartOffset(data) ==
    LET hits == {i \in ScanRange(data) : MatchAt(data, i)}
    IN  IF hits = {} THEN 0 ELSE Min(hits)

\* crxData.slice(zipStartOffset)
Slice(data, offset) == SubSeq(data, offset + 1, Len(data))

\* every offset at which the buffer really holds the signature
SigOffsets(data) == {k \in 0..(Len(data) - 4) : MatchAt(data, k)}
HasSignature(data) == SigOffsets(data) # {}
FirstSignature(data) == Min(SigOffsets(data))

\* the manifest.json inside the archives of this model, and the hardcoded
\* fallback of extractManifestFromCrx
ArchiveVersion == <<"2", ".", "0">>
FallbackVersion == <<"1", ".", "0", ".", "0">>
ArchiveManifest ==
    [version |-> ArchiveVersion, name |-> "SmartLink", origin |-> "archive"]
ArchiveManifestNoVersion == [name |-> "SmartLink", origin |-> "archive"]
\* the object the catch block of extractManifestFromCrx returns
FallbackManifestNoVersion == [name |-> "VaultySid", origin |-> "fallback"]
FallbackManifest ==
    [version |-> FallbackVersion, name |-> "VaultySid", origin |-> "fallback"]

\* the manifest.json an archive holds: [kind |-> "json", json |-> m],
\* or kind "absent" / "unparseable"
ManifestOf(crx) == crx.manifest

\* unzip / Expand-Archive of a file written from `offset` on: it exits 0 only
\* when the file starts at the ZIP payload, the payload is a well-formed ZIP
\* and the environment (disk, permissions, the tool itself) lets it
UnzipSucceeds(crx, offset, envOk) ==
    /\ envOk
    /\ crx.payload = "valid"
    /\ HasSignature(crx.bytes)
    /\ offset = FirstSignature(crx.bytes)

\* extractManifestFromCrx: what it returns, and what it did on the way
\*   threw    an error reached the caller
\*   invalid  the `zipStartOffset === 0` check raised "signature non trouvee"
\*   offset   zipStartOffset after the scan
\*   zipFile  the bytes written to extension.zip (<<>> when none was written)
\*   unzipped the unzip command was run
ExtractManifestFromCrx(crx, envOk) ==
    LET offset == ZipStartOffset(crx.bytes)
        base == [threw |-> FALSE, offset |-> offset]
        fallback(inv, wrote, ran) ==
            base @@ [invalid |-> inv, zipFile |-> wrote, unzipped |-> ran,
                     manifest |-> FallbackManifest]
        m == ManifestOf(crx)
    IN  IF offset = 0
        THEN fallback(TRUE, <<>>, FALSE)
        ELSE IF ~UnzipSucceeds(crx, offset, envOk)
        THEN fallback(FALSE, Slice(crx.bytes, offset), TRUE)
        ELSE IF m.kind # "json"
        THEN fallback(FALSE, Slice(crx.bytes, offset), TRUE)
        ELSE base @@ [invalid |-> FALSE, zipFile |-> Slice(crx.bytes, offset),
                      unzipped |-> TRUE, manifest |-> m.json]

\* the scan and the unzip of the install path (Vivaldi.installExtension,
\* Opera.installExtension): there is no check of the offset
InstallExtract(crx, envOk) ==
    LET offset == ZipStartOffset(crx.bytes)
    IN  [threw |-> FALSE, offset |-> offset,
         zipFile |-> Slice(crx.bytes, offset), unzipped |-> TRUE,
         ok |-> UnzipSucceeds(crx, offset, envOk)]

\* --------------------------------------- the version directory's name
\* the characters a version string is made of in this model
VersionChars == {"1", "2", ".", "_"}
VersionStrings == SeqsUpTo(VersionChars, MaxVerLen)

\* version.replace(/\./g, "_") + "_0"
VersionFormattedFirstDotOnly(version) ==
    LET dots == {i \in 1..Len(version) : version[i] = "."}
    IN  [i \in 1..Len(version) |->
            IF dots # {} /\ i = Min(dots) THEN "_" ELSE version[i]]
        \o <<"_", "0">>
VersionFormatted(version) ==
    [i \in 1..Len(version) |-> IF version[i] = "." THEN "_" ELSE version[i]]
    \o <<"_", "0">>

\* const versionFormatted = manifest.version.replace(/\./g, "_") + "_0":
\* a manifest without a version has manifest.version undefined, and the
\* call of replace on it raises a TypeError
FormatVersionOf(m) ==
    IF "version" \in DOMAIN m
    THEN [threw |-> FALSE, name |-> VersionFormatted(m.version)]
    ELSE [threw |-> TRUE, name |-> <<>>]

\* ------------------------------------------------------ JSON objects
\* a JSON object is a function from the keys it holds to their values
EmptyObj == [k \in {} |-> TRUE]
Has(obj, k) == k \in DOMAIN obj
\* obj[k] = v
Put(obj, k, v) == [x \in DOMAIN obj \cup {k} |-> IF x = k THEN v ELSE obj[x]]
\* array.includes(x)
Includes(array, x) == \E i \in 1..Len(array) : array[i] = x

\* ------------------------------------------- profiles and their files
\* the id installExtensionCommand installs, and another extension's id
ExtensionId == "hfkipjpbjnpdpaofpilegpmbbfhmoceb"
OtherId == "other-extension"

\* a file: kind "missing", "corrupt" (no parseable JSON) or "json";
\* layout "browser" as the browser wrote it, "pretty" as
\* JSON.stringify(value, null, 2) writes it
MissingFile == [kind |-> "missing", json |-> EmptyObj, layout |-> "browser"]
CorruptFile == [kind |-> "corrupt", json |-> EmptyObj, layout |-> "browser"]
JsonFile(obj) == [kind |-> "json", json |-> obj, layout |-> "browser"]
\* fs.writeFileSync(preferenceFile, JSON.stringify(preferences, null, 2))
WrittenFile(obj) == [kind |-> "json", json |-> obj, layout |-> "pretty"]

\* the names of the files of a version directory
FileNames == {"manifest.json", "background.js", "stale.js"}
ArchiveFiles == {"manifest.json", "background.js"}

\* a directory: whether it exists, and for each name what the file holds:
\* "none" (no such file), "old" (there before the run), "arc" (unpacked
\* from the archive), "gen" (manifest.json written from the parsed manifest)
NoDir == [exists |-> FALSE, files |-> [f \in FileNames |-> "none"]]
EmptyDir == [exists |-> TRUE, files |-> [f \in FileNames |-> "none"]]
OldDir ==
    [exists |-> TRUE,
     files |-> [f \in FileNames |->
                  IF f \in {"manifest.json", "stale.js"} THEN "old" ELSE "none"]]

\* the version directories a run can name
DirNames == {VersionFormatted(ArchiveVersion), VersionFormatted(FallbackVersion)}

\* an extension's record in a settings map, as another party wrote it
OldEntry(id) ==
    [path |-> <<id, <<"0", "_", "9", "_", "0">>>>, manifest |-> FallbackManifest,
     from_webstore |-> FALSE, time |-> "then"]
OldExternal == [external_update_url |-> "https://example.org/crx", time |-> "then"]

\* the 'extensions' object of a profile that holds the other extension
OthersExtensions ==
    [settings |-> [i \in {OtherId} |-> OldEntry(i)],
     opsettings |-> [i \in {OtherId} |-> OldEntry(i)],
     external_extensions |-> [i \in {OtherId} |-> OldExternal],
     known_enabled |-> <<OtherId>>,
     pinned_extensions |-> <<OtherId>>]

\* the 'extensions' object of a profile that holds both extensions
BothExtensions ==
    [settings |-> [i \in {ExtensionId, OtherId} |-> OldEntry(i)],
     opsettings |-> [i \in {ExtensionId, OtherId} |-> OldEntry(i)],
     external_extensions |-> [i \in {ExtensionId, OtherId} |-> OldExternal],
     known_enabled |-> <<ExtensionId, OtherId>>,
     pinned_extensions |-> <<OtherId, ExtensionId>>]

\* a profile directory: its Preferences file, whether Extensions/<id>
\* exists, and the version directories below it
Profile(prefs, extDir, dir) ==
    [prefs |-> prefs, extDir |-> extDir, ver |-> [d \in DirNames |-> dir]]

\* the profile directories a run can meet
ProfileKinds ==
    { Profile(JsonFile(EmptyObj), FALSE, NoDir),
      Profile(MissingFile, FALSE, NoDir),
      Profile(CorruptFile, TRUE, OldDir),
      Profile(JsonFile([browser |-> "b", extensions |-> OthersExtensions]),
              FALSE, NoDir),
      Profile(JsonFile([browser |-> "b", extensions |-> BothExtensions]),
              TRUE, OldDir) }

\* ------------------------------------------------ patching Preferences
\* preferences.extensions.settings[extensionId] = { ..., path, manifest }
NewSettingsEntry(extensionId, m, versionFormatted) ==
    [path |-> <<extensionId, versionFormatted>>, manifest |-> m,
     from_webstore |-> TRUE, time |-> "now"]
\* preferences.extensions.external_extensions[extensionId] = { ... }
NewExternal ==
    [external_update_url |-> "https://clients2.google.com/service/update2/crx",
     time |-> "now"]

\* the map the installer puts the record into: Vivaldi uses
\* extensions.settings, Opera extensions.opsettings
SettingsKey(b) == IF b = "opera" THEN "opsettings" ELSE "settings"

\* if (!list) list = []; if (!list.includes(id)) list.push(id)
PushAlways(ext, key, id) ==
    Put(ext, key, Append(IF Has(ext, key) THEN ext[key] ELSE <<>>, id))
PushOnce(ext, key, id) ==
    LET list == IF Has(ext, key) THEN ext[key] ELSE <<>>
    IN  Put(ext, key, IF Includes(list, id) THEN list ELSE Append(list, id))

\* if (!preferences.extensions.<key>) preferences.extensions.settings = {}
EnsureSettingsMapReset(b, ext) == Put(ext, "settings", EmptyObj)
EnsureSettingsMap(b, ext) ==
    IF Has(ext, SettingsKey(b)) THEN ext ELSE Put(ext, "settings", EmptyObj)

\* the statements from `if (!preferences.extensions.settings)` to the last
\* push, on the 'extensions' object: threw is the TypeError of assigning a
\* property of an undefined map
PatchExtensions(b, ext, id, m, versionFormatted, pin) ==
    LET key == SettingsKey(b)
        e1 == EnsureSettingsMap(b, ext)
        e2 == Put(e1, key, Put(e1[key], id,
                                NewSettingsEntry(id, m, versionFormatted)))
        ext0 == IF Has(e2, "external_extensions")
                THEN e2["external_extensions"] ELSE EmptyObj
        e3 == Put(e2, "external_extensions", Put(ext0, id, NewExternal))
        e4 == PushOnce(e3, "known_enabled", id)
        e5 == IF pin THEN PushOnce(e4, "pinned_extensions", id) ELSE e4
    IN  IF ~Has(e1, key)
        THEN [threw |-> TRUE, ext |-> e1]
        ELSE [threw |-> FALSE, ext |-> e5]

\* if (!preferences.extensions) preferences.extensions = {}; ...
PatchPreferences(b, prefs, id, m, versionFormatted, pin) ==
    LET p1 == IF Has(prefs, "extensions")
              THEN prefs ELSE Put(prefs, "extensions", EmptyObj)
        r == PatchExtensions(b, p1["extensions"], id, m, versionFormatted, pin)
    IN  [threw |-> r.threw, json |-> Put(p1, "extensions", r.ext)]

\* ------------------------------------------------ the process controller
Browsers == {"chrome", "edge", "firefox", "opera", "brave", "vivaldi"}

\* the process names of each browser
BrowserProcesses ==
    [b \in Browsers |->
        CASE b = "chrome" -> <<"chrome", "chromium">>
          [] b = "edge" -> <<"msedge", "edge", "microsoft-edge">>
          [] b = "firefox" -> <<"firefox">>
          [] b = "opera" -> <<"opera">>
          [] b = "brave" -> <<"brave">>
          [] b = "vivaldi" -> <<"vivaldi">>]

\* process.pid of the caller, and the pids a listing can hold
MyPid == 0
Pids == 0..MaxPids


\* ------------------------------------------------------- idle values
\* each specification leaves the variables of the others at these values
ScanIdle == [threw |-> FALSE, offset |-> 0]

ScanIdleInit ==
    /\ scanCrx = [bytes |-> <<>>, payload |-> "corrupt",
                  manifest |-> [kind |-> "absent"]]
    /\ scanPc = "idle"
    /\ scanManifest = ScanIdle
    /\ scanInstall = ScanIdle

VerIdle ==
    /\ verManifest = FallbackManifest
    /\ verPc = "idle"
    /\ verResult = [threw |-> FALSE, name |-> <<>>]

CloseLogEmpty == [listFailed |-> {}, killFailed |-> {}, issued |-> {},
                  listed |-> {}]

CloseIdle ==
    /\ closeBrowser = "chrome"
    /\ closePlatform = "posix"
    /\ closePc = "idle"
    /\ closeAlias = 0
    /\ closePids = <<>>
    /\ closePid = 0
    /\ closeLog = CloseLogEmpty

\* the forcelist entry: the hives a write was tried on, and those written
NoRegistry == [tried |-> {}, written |-> {}]
LocIdle ==
    /\ locIn = [browser |-> "chrome"]
    /\ locPc = "idle"
    /\ locOut = [threw |-> FALSE, profiles |-> {}]

OpenIdle ==
    /\ openIn = [browser |-> "chrome"]
    /\ openPc = "idle"
    /\ openCommand = <<>>
    /\ openLog = <<>>

IniIdle ==
    /\ iniLines = <<>>
    /\ iniPos = 0
    /\ iniCur = <<>>
    /\ iniProfiles = <<>>

XpiIdle ==
    /\ xpiOptions = [forceReinstall |-> FALSE]
    /\ xpiArchive = [manifest |-> FALSE, geckoId |-> FALSE]
    /\ xpiDisk = <<>>
    /\ xpiDisk0 = <<>>
    /\ xpiRun = 0
    /\ xpiPc = "idle"
    /\ xpiCur = 0
    /\ xpiId = <<>>
    /\ xpiLog = <<>>

NoFile == [exists |-> FALSE, chunks |-> 0, finished |-> FALSE]

DlIdle ==
    /\ dlIn = [installer |-> "vivaldi", downloadDir |-> FALSE]
    /\ dlPc = "idle"
    /\ dlStatuses = <<>>
    /\ dlFile = NoFile
    /\ dlResult = "pending"

RaceIdle ==
    /\ raceFile = MissingFile
    /\ racePc = <<>>
    /\ raceMem = <<>>
    /\ raceLog = <<>>

RestIdle == IniIdle /\ XpiIdle /\ DlIdle /\ RaceIdle

NoDownloadDir == [exists |-> FALSE, crx |-> FALSE, zip |-> <<>>]
CmdIdle == [state |-> "idle", loggedSuccess |-> FALSE, exitCode |-> -1]

RunIdle ==
    /\ browser = "chrome"
    /\ platform = "posix"
    /\ options = [forceReinstall |-> FALSE, pinExtension |-> FALSE,
                  config |-> [smartLinkUrl |-> FALSE, secret |-> FALSE]]
    /\ archive = [bytes |-> <<>>, payload |-> "corrupt",
                  manifest |-> [kind |-> "absent"]]
    /\ fs = <<>>
    /\ fs0 = <<>>
    /\ run = 0
    /\ prev = <<>>
    /\ registry = NoRegistry
    /\ steps = <<>>
    /\ downloadDir = NoDownloadDir
    /\ pc = "idle"
    /\ profiles = <<>>
    /\ cur = 0
    /\ manifest = FallbackManifest
    /\ preferences = EmptyObj
    /\ versionDir = <<>>
    /\ outcome = <<>>
    /\ launches = <<>>
    /\ failure = "none"
    /\ cmd = CmdIdle


\* ------------------------------------------------------------ SpecScan
ScanArchives ==
    [bytes : SeqsUpTo(Bytes, MaxBufLen), payload : {"valid", "corrupt"},
     manifest : {[kind |-> "json", json |-> ArchiveManifest]}]

ScanInit ==
    /\ scanCrx \in ScanArchives
    /\ scanPc = "start"
    /\ scanManifest = ScanIdle
    /\ scanInstall = ScanIdle
    /\ VerIdle
    /\ CloseIdle
    /\ RunIdle
    /\ LocIdle
    /\ OpenIdle
    /\ RestIdle

\* manifest = await extractManifestFromCrx(crxFilePath)
ScanExtractManifest ==
    /\ scanPc = "start"
    /\ scanManifest' = ExtractManifestFromCrx(scanCrx, TRUE)
    /\ scanPc' = "manifest"
    /\ UNCHANGED <<scanCrx, scanInstall, verVars, closeVars, runVars,
                   locVars, openVars, restVars>>

\* the install path's own scan, slice and unzip of the same file
ScanInstallExtract ==
    /\ scanPc = "manifest"
    /\ scanInstall' = InstallExtract(scanCrx, TRUE)
    /\ scanPc' = "installed"
    /\ UNCHANGED <<scanCrx, scanManifest, verVars, closeVars, runVars,
                   locVars, openVars, restVars>>

ScanNext == ScanExtractManifest \/ ScanInstallExtract

SpecScan == ScanInit /\ [][ScanNext]_vars

\* --------------------------------------------------------- SpecVersion
VerInit ==
    /\ verManifest \in
         {[version |-> v, name |-> "SmartLink", origin |-> "archive"] :
            v \in VersionStrings} \cup {ArchiveManifestNoVersion}
    /\ verPc = "start"
    /\ verResult = [threw |-> FALSE, name |-> <<>>]
    /\ ScanIdleInit
    /\ CloseIdle
    /\ RunIdle
    /\ LocIdle
    /\ OpenIdle
    /\ RestIdle

VerFormat ==
    /\ verPc = "start"
    /\ verResult' = FormatVersionOf(verManifest)
    /\ verPc' = "done"
    /\ UNCHANGED <<verManifest, scanVars, closeVars, runVars,
                   locVars, openVars, restVars>>

VerNext == VerFormat

SpecVersion == VerInit /\ [][VerNext]_vars

\* ------------------------------------------------------------ SpecClose
\* the sequences of distinct pids a listing returns
PidLists ==
    {l \in SeqsUpTo(Pids, MaxPids) :
        \A i, j \in 1..Len(l) : i # j => l[i] # l[j]}

\* execSync(`pgrep -f ${procName}`) / execSync(`tasklist`) and the filter on
\* its lines: the command fails, or it gives the pids of the matching
\* processes; pgrep exits 1, and execSync throws, when nothing matches
ListingOutcomes(os) ==
    {[ok |-> FALSE, pids |-> <<>>]} \cup
    {[ok |-> TRUE, pids |-> l] : l \in {x \in PidLists : os = "win32" \/ x # <<>>}}

\* the end of one turn of `for (const procName of BrowserProcesses[browser])`
AfterAlias(b, alias) ==
    IF alias < Len(BrowserProcesses[b])
    THEN [pc |-> "list", alias |-> alias + 1]
    ELSE [pc |-> "returned", alias |-> alias]

\* } catch (error) {}
CatchAliasErrorRethrows(b, alias) == [pc |-> "threw", alias |-> alias]
CatchAliasError(b, alias) == AfterAlias(b, alias)

CloseInit ==
    /\ closeBrowser \in Browsers
    /\ closePlatform \in {"win32", "posix"}
    /\ closePc = "list"
    /\ closeAlias = 1
    /\ closePids = <<>>
    /\ closePid = 0
    /\ closeLog = CloseLogEmpty
    /\ ScanIdleInit
    /\ VerIdle
    /\ RunIdle
    /\ LocIdle
    /\ OpenIdle
    /\ RestIdle

\* the listing command of one alias, and the parse of its output
CloseList ==
    /\ closePc = "list"
    /\ \E o \in ListingOutcomes(closePlatform) :
         LET next == IF ~o.ok THEN CatchAliasError(closeBrowser, closeAlias)
                     ELSE IF o.pids = <<>> THEN AfterAlias(closeBrowser, closeAlias)
                     ELSE [pc |-> "kill", alias |-> closeAlias]
         IN  /\ closePc' = next.pc
             /\ closeAlias' = next.alias
             /\ closePids' = o.pids
             /\ closePid' = IF next.pc = "kill" THEN 1 ELSE 0
             /\ closeLog' =
                  [closeLog EXCEPT
                     !.listFailed = IF o.ok THEN @ ELSE @ \cup {closeAlias},
                     !.listed = @ \cup {<<closeAlias, o.pids[i]>> :
                                          i \in 1..Len(o.pids)}]
    /\ UNCHANGED <<closeBrowser, closePlatform, scanVars, verVars, runVars,
                   locVars, openVars, restVars>>

\* one turn of `for (const pid of pids)`: the caller's own pid is passed
\* over; for any other the kill command runs, and when it fails the error
\* leaves the loop over the pids
CloseKill ==
    /\ closePc = "kill"
    /\ LET pid == closePids[closePid]
           more == IF closePid < Len(closePids)
                   THEN [pc |-> "kill", alias |-> closeAlias]
                   ELSE AfterAlias(closeBrowser, closeAlias)
       IN  \E ok \in BOOLEAN :
             LET next == IF pid = MyPid \/ ok THEN more
                         ELSE CatchAliasError(closeBrowser, closeAlias)
             IN  /\ pid = MyPid => ok
                 /\ closePc' = next.pc
                 /\ closeAlias' = next.alias
                 /\ closePid' = IF next.pc = "kill" THEN closePid + 1 ELSE 0
                 /\ closePids' = IF next.pc = "kill" THEN closePids ELSE <<>>
                 /\ closeLog' =
                      [closeLog EXCEPT
                         !.issued = IF pid = MyPid THEN @
                                    ELSE @ \cup {<<closeAlias, pid>>},
                         !.killFailed = IF ok THEN @
                                        ELSE @ \cup {<<closeAlias, pid>>}]
    /\ UNCHANGED <<closeBrowser, closePlatform, scanVars, verVars, runVars,
                   locVars, openVars, restVars>>

CloseNext == CloseList \/ CloseKill

SpecClose == CloseInit /\ [][CloseNext]_vars

\* ------------------------------------------- Spec: one run of the command
\* a CRX as the web store serves it: a header, then the ZIP payload
CrxBytes == <<0, 80, 75, 3, 4, 0>>
\* a plain ZIP: the payload starts at offset 0
ZipBytes == <<80, 75, 3, 4, 0, 0>>
\* a body with no ZIP in it (an error page)
NoZipBytes == <<0, 0, 0, 0, 0, 0>>

\* the archives a download can deliver
RunArchives ==
    { [bytes |-> CrxBytes, payload |-> "valid",
       manifest |-> [kind |-> "json", json |-> ArchiveManifest]],
      [bytes |-> CrxBytes, payload |-> "valid",
       manifest |-> [kind |-> "json", json |-> ArchiveManifestNoVersion]],
      [bytes |-> ZipBytes, payload |-> "valid",
       manifest |-> [kind |-> "json", json |-> ArchiveManifest]],
      [bytes |-> NoZipBytes, payload |-> "corrupt",
       manifest |-> [kind |-> "absent", json |-> FallbackManifest]] }

\* config: { smartLinkUrl: argv.smartLinkUrl, secret: argv.secret }, each
\* field present or undefined
ConfigChoices == [smartLinkUrl : BOOLEAN, secret : BOOLEAN]

\* this.options.config?.smartLinkUrl && this.options.config?.secret
HasConfig(o) == o.config.smartLinkUrl /\ o.config.secret

\* the browser data directories a run can meet: none, or up to MaxProfiles
\* profile directories
FileSystems == UNION {[1..n -> ProfileKinds] : n \in 0..MaxProfiles}

constVars == <<browser, platform, options, archive>>
histVars == <<fs0, run, prev>>

\* per profile: how far the loop got with it, and how the unzip went
Pending == [state |-> "pending", unzip |-> "none"]

RunInit ==
    /\ browser \in {"vivaldi", "opera", "firefox"}
    /\ platform \in {"posix", "win32"}
    /\ options \in [forceReinstall : BOOLEAN, pinExtension : BOOLEAN,
                    config : ConfigChoices]
    /\ archive \in RunArchives
    /\ fs \in FileSystems
    \* the per-profile path is Vivaldi's off Windows and Opera's anywhere;
    \* the other runs read none of the profile state of this model
    /\ browser = "opera" => platform = "posix"
    /\ (browser = "firefox" \/ platform = "win32") =>
          /\ fs = <<>>
          /\ archive.bytes = CrxBytes /\ "version" \in DOMAIN archive.manifest.json
          /\ ~options.pinExtension
    /\ (browser = "vivaldi" /\ platform = "win32") => ~options.forceReinstall
    \* a run with only one of smartLinkUrl and secret has the other options
    \* at their defaults and a well-formed archive
    /\ (options.config.smartLinkUrl # options.config.secret) =>
          /\ ~options.forceReinstall /\ ~options.pinExtension
          /\ archive.bytes = CrxBytes
          /\ "version" \in DOMAIN archive.manifest.json
    /\ fs0 = fs
    /\ run = 1
    /\ prev = <<>>
    /\ registry = NoRegistry
    /\ steps = <<>>
    /\ downloadDir = NoDownloadDir
    /\ pc = "construct"
    /\ profiles = <<>>
    /\ cur = 0
    /\ manifest = FallbackManifest
    /\ preferences = EmptyObj
    /\ versionDir = <<>>
    /\ outcome = [p \in DOMAIN fs |-> Pending]
    /\ launches = <<>>
    /\ failure = "none"
    /\ cmd = [state |-> "running", loggedSuccess |-> FALSE, exitCode |-> -1]
    /\ ScanIdleInit
    /\ VerIdle
    /\ CloseIdle
    /\ LocIdle
    /\ OpenIdle
    /\ RestIdle

others == <<scanVars, verVars, closeVars, locVars, openVars, restVars>>

\* throw: the error leaves installExtension through its outer catch, which
\* logs and rethrows
Throws(step) ==
    /\ pc' = "threw"
    /\ failure' = step

\* the loop `for (const profile of profiles)` takes up profile number i, or
\* ends
LoopTo(i) ==
    /\ cur' = i
    /\ pc' = IF i <= Len(profiles) THEN "profile" ELSE "cleanup"

\* per-profile error handling: none, the error leaves the loop
ProfileFails(p, step) ==
    /\ Throws(step)
    /\ cur' = cur
    /\ outcome' = [outcome EXCEPT ![p].state = "failed"]

\* new Vivaldi(options) / new Opera(options): the constructor creates the
\* download directory
Construct ==
    /\ pc = "construct"
    /\ browser \in {"vivaldi", "opera"}
    /\ downloadDir' = [downloadDir EXCEPT !.exists = TRUE]
    /\ pc' = "close"
    /\ steps' = Append(steps, "init")
    /\ UNCHANGED <<constVars, histVars, registry, fs, profiles, cur, manifest,
                   preferences, versionDir, outcome, launches, failure, cmd,
                   others>>

\* await BrowserController.close(browser)
CloseBrowser ==
    /\ pc = "close"
    /\ pc' = IF browser = "vivaldi" /\ platform = "win32"
             THEN "registry" ELSE "resolve"
    /\ steps' = Append(steps, "close")
    /\ UNCHANGED <<constVars, histVars, registry, fs, downloadDir, profiles,
                   cur, manifest, preferences, versionDir, outcome, launches,
                   failure, cmd, others>>

\* installExtensionViaRegistry: it throws at once when checkAdminPrivileges
\* says no; otherwise REG ADD under HKLM, and when that fails REG ADD under
\* HKCU; it throws when both fail
InstallExtensionViaRegistry(admin, hklm, hkcu) ==
    IF ~admin THEN [threw |-> TRUE, written |-> {}, tried |-> {}]
    ELSE IF hklm THEN [threw |-> FALSE, written |-> {"HKLM"}, tried |-> {"HKLM"}]
    ELSE IF hkcu
    THEN [threw |-> FALSE, written |-> {"HKCU"}, tried |-> {"HKLM", "HKCU"}]
    ELSE [threw |-> TRUE, written |-> {}, tried |-> {"HKLM", "HKCU"}]

\* Vivaldi on Windows: installExtensionViaRegistry, then the relaunch, then
\* return; admin, hklm and hkcu are the outcomes of `net session` and of
\* the two REG ADD commands
RegistryInstall ==
    /\ pc = "registry"
    /\ \E admin, hklm, hkcu \in BOOLEAN :
         LET r == InstallExtensionViaRegistry(admin, hklm, hkcu)
         IN  /\ registry' = [tried |-> r.tried, written |-> r.written]
             /\ IF r.threw
                THEN Throws("registry")
                ELSE /\ pc' = IF HasConfig(options) THEN "relaunch_registry"
                              ELSE "returned"
                     /\ failure' = failure
    /\ steps' = Append(steps, "registry")
    /\ UNCHANGED <<constVars, histVars, fs, downloadDir, profiles, cur,
                   manifest, preferences, versionDir, outcome, launches, cmd,
                   others>>

\* await this.openVivaldiWithConfigUrl("Default", ...) of the registry path
RelaunchRegistry ==
    /\ pc = "relaunch_registry"
    /\ launches' = Append(launches, 0)
    /\ pc' = "returned"
    /\ steps' = Append(steps, "relaunch")
    /\ UNCHANGED <<constVars, histVars, registry, fs, downloadDir, profiles,
                   cur, manifest, preferences, versionDir, outcome, failure,
                   cmd, others>>

\* let profiles = this.getProfiles(): it throws when the browser's data
\* directory or its profile directories are not there
ResolveProfiles ==
    /\ pc = "resolve"
    /\ IF Len(fs) = 0
       THEN /\ Throws("profiles")
            /\ profiles' = profiles
       ELSE /\ profiles' = [i \in 1..Len(fs) |-> i]
            /\ pc' = "download"
            /\ failure' = failure
    /\ steps' = Append(steps, "resolve")
    /\ UNCHANGED <<constVars, histVars, registry, fs, downloadDir, cur,
                   manifest, preferences, versionDir, outcome, launches, cmd,
                   others>>

\* crxFilePath = await this.downloadExtension(extensionId): a rejection is
\* logged and thrown on as a new Error
Download ==
    /\ pc = "download"
    /\ \E result \in {"ok", "http_status", "transport_error"} :
         IF result = "ok"
         THEN /\ downloadDir' = [downloadDir EXCEPT !.crx = TRUE]
              /\ pc' = "manifest"
              /\ failure' = failure
         ELSE /\ Throws("download")
              /\ downloadDir' = downloadDir
    /\ steps' = Append(steps, "download")
    /\ UNCHANGED <<constVars, histVars, registry, fs, profiles, cur, manifest,
                   preferences, versionDir, outcome, launches, cmd, others>>

\* manifest = await extractManifestFromCrx(crxFilePath)
ParseManifest ==
    /\ pc = "manifest"
    /\ \E envOk \in BOOLEAN :
         manifest' = ExtractManifestFromCrx(archive, envOk).manifest
    /\ LoopTo(1)
    /\ steps' = Append(steps, "manifest")
    /\ UNCHANGED <<constVars, histVars, registry, fs, downloadDir, profiles,
                   preferences, versionDir, outcome, launches, failure, cmd,
                   others>>

\* the profile the loop is at
CurProfile == profiles[cur]

\* what the installer does about the version directory: "remove" it first,
\* "skip" the profile, or just "create" it
\*   if (exists && forceReinstall) rmSync ... else if (exists && !forceReinstall) continue
ExistingActionNeverSkips(exists, force) ==
    IF exists THEN "remove" ELSE "create"
ExistingAction(exists, force) ==
    IF exists /\ force THEN "remove"
    ELSE IF exists /\ ~force THEN "skip"
    ELSE "create"

\* fs.rmSync(extensionVersionDir, { recursive: true, force: true })
RemoveDirKeepsFiles(dir) == dir
RemoveDir(dir) == NoDir

\* fs.mkdirSync(extensionVersionDir, { recursive: true })
MakeDir(dir) == IF dir.exists THEN dir ELSE EmptyDir

\* unzip -o into the directory: the files in `extracted` are written over
\* whatever was there, every other file stays
UnzipInto(dir, extracted) ==
    [dir EXCEPT !.files = [f \in FileNames |->
                              IF f \in extracted THEN "arc" ELSE dir.files[f]]]

\* fs.writeFileSync(path.join(extensionVersionDir, "manifest.json"), ...)
WriteManifest(dir) == [dir EXCEPT !.files["manifest.json"] = "gen"]

\* the loop body up to the version directory's name, Vivaldi: everything is
\* inside `if (fs.existsSync(preferenceFile))`, and Preferences is read and
\* parsed first; Opera: only Extensions/<id> is created here
ProfileBegin ==
    /\ pc = "profile"
    /\ LET p == CurProfile
           file == fs[p].prefs
       IN  IF browser = "vivaldi" /\ file.kind = "missing"
           THEN /\ LoopTo(cur + 1)
                /\ outcome' = [outcome EXCEPT ![p].state = "noprefs"]
                /\ UNCHANGED <<fs, preferences, failure>>
           ELSE IF browser = "vivaldi" /\ file.kind = "corrupt"
           THEN /\ ProfileFails(p, "parse")
                /\ UNCHANGED <<fs, preferences>>
           ELSE /\ preferences' = IF browser = "vivaldi" THEN file.json
                                  ELSE preferences
                /\ fs' = [fs EXCEPT ![p].extDir = TRUE]
                /\ pc' = "check"
                /\ UNCHANGED <<cur, outcome, failure>>
    /\ steps' = Append(steps, "profile")
    /\ UNCHANGED <<constVars, histVars, registry, downloadDir, profiles,
                   manifest, versionDir, launches, cmd, others>>

\* versionFormatted, then the test of the version directory
CheckExisting ==
    /\ pc = "check"
    /\ LET p == CurProfile
           r == FormatVersionOf(manifest)
       IN  IF r.threw
           THEN /\ ProfileFails(p, "version")
                /\ UNCHANGED <<fs, versionDir>>
           ELSE LET act == ExistingAction(fs[p].ver[r.name].exists,
                                          options.forceReinstall)
                IN  /\ versionDir' = r.name
                    /\ IF act = "skip"
                       THEN /\ LoopTo(cur + 1)
                            /\ outcome' = [outcome EXCEPT ![p].state = "skipped"]
                            /\ fs' = fs
                       ELSE /\ pc' = "extract"
                            /\ fs' = IF act = "remove"
                                     THEN [fs EXCEPT ![p].ver[r.name] =
                                              RemoveDir(fs[p].ver[r.name])]
                                     ELSE fs
                            /\ UNCHANGED <<cur, outcome>>
                    /\ failure' = failure
    /\ steps' = Append(steps, "check")
    /\ UNCHANGED <<constVars, histVars, registry, downloadDir, profiles,
                   manifest, preferences, launches, cmd, others>>

\* what a failing unzip can leave behind: nothing when the file it was
\* given holds no ZIP at all, any of the archive's files otherwise
PartialUnzips(crx) ==
    IF HasSignature(crx.bytes) THEN SUBSET ArchiveFiles ELSE {{}}

\* mkdir of the version directory, then the try block that scans the CRX,
\* writes extension.zip and unpacks it, and its catch, which writes
\* manifest.json from the parsed manifest
ExtractInto(dir, crx, envOk, partial) ==
    IF InstallExtract(crx, envOk).ok
    THEN UnzipInto(MakeDir(dir), ArchiveFiles)
    ELSE WriteManifest(UnzipInto(MakeDir(dir), partial))

Extract ==
    /\ pc = "extract"
    /\ \E envOk \in BOOLEAN, partial \in PartialUnzips(archive) :
         LET p == CurProfile
             r == InstallExtract(archive, envOk)
         IN  /\ fs' = [fs EXCEPT ![p].ver[versionDir] =
                          ExtractInto(fs[p].ver[versionDir], archive, envOk,
                                      partial)]
             /\ downloadDir' = [downloadDir EXCEPT !.zip = r.zipFile]
             /\ outcome' = [outcome EXCEPT ![p] =
                    [state |-> "extracted",
                     unzip |-> IF r.ok THEN "ok" ELSE "failed"]]
    /\ pc' = "patch"
    /\ steps' = Append(steps, "extract")
    /\ UNCHANGED <<constVars, histVars, registry, profiles, cur, manifest,
                   preferences, versionDir, launches, failure, cmd, others>>

\* the Preferences update and its write: Vivaldi patches the object it
\* parsed at the top of the loop body; Opera reads and parses the file
\* here, and does nothing when there is none
PatchPrefs ==
    /\ pc = "patch"
    /\ LET p == CurProfile
           file == fs[p].prefs
           json == IF browser = "vivaldi" THEN preferences ELSE file.json
           r == PatchPreferences(browser, json, ExtensionId, manifest,
                                 versionDir, options.pinExtension)
       IN  IF browser = "opera" /\ file.kind = "missing"
           THEN /\ LoopTo(cur + 1)
                /\ outcome' = [outcome EXCEPT ![p].state = "noprefs"]
                /\ UNCHANGED <<fs, preferences, failure>>
           ELSE IF browser = "opera" /\ file.kind = "corrupt"
           THEN /\ ProfileFails(p, "parse")
                /\ UNCHANGED <<fs, preferences>>
           ELSE IF r.threw
           THEN /\ ProfileFails(p, "patch")
                /\ UNCHANGED <<fs, preferences>>
           ELSE /\ preferences' = r.json
                /\ fs' = [fs EXCEPT ![p].prefs = WrittenFile(r.json)]
                /\ outcome' = [outcome EXCEPT ![p].state = "installed"]
                /\ failure' = failure
                /\ IF HasConfig(options)
                   THEN pc' = "relaunch" /\ cur' = cur
                   ELSE LoopTo(cur + 1)
    /\ steps' = Append(steps, "patch")
    /\ UNCHANGED <<constVars, histVars, registry, downloadDir, profiles,
                   manifest, versionDir, launches, cmd, others>>

\* await this.openVivaldiWithConfigUrl / openOperaWithConfigUrl(profile):
\* it catches its own errors
Relaunch ==
    /\ pc = "relaunch"
    /\ launches' = Append(launches, CurProfile)
    /\ LoopTo(cur + 1)
    /\ steps' = Append(steps, "relaunch")
    /\ UNCHANGED <<constVars, histVars, registry, fs, downloadDir, profiles,
                   manifest, preferences, versionDir, outcome, failure, cmd,
                   others>>

\* after the loop: fs.rmSync(this.options.downloadDir, ...)
Cleanup ==
    /\ pc = "cleanup"
    /\ downloadDir' = NoDownloadDir
    /\ pc' = "returned"
    /\ steps' = Append(steps, "cleanup")
    /\ UNCHANGED <<constVars, histVars, registry, fs, profiles, cur, manifest,
                   preferences, versionDir, outcome, launches, failure, cmd,
                   others>>

\* openFirefoxWithConfigUrl(profile.name, this.options.config): it returns
\* early only when it is given no config object at all, and the command
\* always passes one, whatever its fields hold
FirefoxRelaunches(o) == DOMAIN o.config = {"smartLinkUrl", "secret"}

\* ---- Firefox: new FirefoxExtensionInstaller(options).installExtensions([name])
\* the constructor creates the download directory and looks for the
\* profile directory; it throws when there is none
FirefoxConstruct ==
    /\ pc = "construct"
    /\ browser = "firefox"
    /\ downloadDir' = [downloadDir EXCEPT !.exists = TRUE]
    /\ \E found \in BOOLEAN :
         IF found
         THEN pc' = "ff_check" /\ failure' = failure
         ELSE Throws("profiles")
    /\ steps' = steps \o <<"init", "resolve">>
    /\ UNCHANGED <<constVars, histVars, registry, fs, profiles, cur, manifest,
                   preferences, versionDir, outcome, launches, cmd, others>>

\* installExtension: if (isExtensionInstalled(id) && !forceReinstall) return true
FirefoxCheckInstalled ==
    /\ pc = "ff_check"
    /\ \E installed \in BOOLEAN :
         pc' = IF installed /\ ~options.forceReinstall
               THEN "ff_summary" ELSE "ff_close"
    /\ steps' = Append(steps, "check")
    /\ UNCHANGED <<constVars, histVars, registry, fs, downloadDir, profiles,
                   cur, manifest, preferences, versionDir, outcome, launches,
                   failure, cmd, others>>

\* if (this.options.config && (await this.isFirefoxRunning())) close(...)
FirefoxClose ==
    /\ pc = "ff_close"
    /\ pc' = "ff_download"
    /\ \E running \in BOOLEAN :
         steps' = IF FirefoxRelaunches(options) /\ running
                  THEN Append(steps, "close") ELSE steps
    /\ UNCHANGED <<constVars, histVars, registry, fs, downloadDir, profiles,
                   cur, manifest, preferences, versionDir, outcome, launches,
                   failure, cmd, others>>

\* xpiPath = await this.downloadExtension(id): a rejection lands in the
\* catch of installExtension, which logs it and returns false
FirefoxDownload ==
    /\ pc = "ff_download"
    /\ \E result \in {"ok", "http_status", "transport_error"} :
         IF result = "ok"
         THEN /\ downloadDir' = [downloadDir EXCEPT !.crx = TRUE]
              /\ pc' = "ff_install"
              /\ failure' = failure
         ELSE /\ downloadDir' = downloadDir
              /\ pc' = "ff_summary"
              /\ failure' = "download"
    /\ steps' = Append(steps, "download")
    /\ UNCHANGED <<constVars, histVars, registry, fs, profiles, cur, manifest,
                   preferences, versionDir, outcome, launches, cmd, others>>

\* installXpi, the relaunch and unlinkSync(xpiPath); an error of any of
\* them lands in the same catch
FirefoxInstallXpi ==
    /\ pc = "ff_install"
    /\ \E ok \in BOOLEAN :
         IF ok
         THEN /\ downloadDir' = [downloadDir EXCEPT !.crx = FALSE]
              /\ launches' = IF FirefoxRelaunches(options)
                             THEN Append(launches, 0) ELSE launches
              /\ failure' = failure
              /\ steps' = steps \o <<"manifest", "extract", "patch">>
                             \o (IF FirefoxRelaunches(options)
                                 THEN <<"relaunch">> ELSE <<>>)
         ELSE /\ failure' = "install"
              /\ UNCHANGED <<downloadDir, launches, steps>>
    /\ pc' = "ff_summary"
    /\ UNCHANGED <<constVars, histVars, registry, fs, profiles, cur, manifest,
                   preferences, versionDir, outcome, cmd, others>>

\* installExtensions: the loop over the one extension ends, the summary is
\* logged, the promise resolves
FirefoxSummary ==
    /\ pc = "ff_summary"
    /\ pc' = "returned"
    /\ steps' = steps
    /\ UNCHANGED <<constVars, histVars, registry, fs, downloadDir, profiles,
                   cur, manifest, preferences, versionDir, outcome, launches,
                   failure, cmd, others>>

\* ---- installExtensionCommand and the CLI
\* the installer's promise resolved: logger.info("... installée avec
\* succès ..."), the command resolves, the process ends with code 0
CommandResolves ==
    /\ pc = "returned"
    /\ cmd.state = "running"
    /\ cmd' = [state |-> "resolved", loggedSuccess |-> TRUE, exitCode |-> 0]
    /\ pc' = "done"
    /\ steps' = steps
    /\ UNCHANGED <<constVars, histVars, registry, fs, downloadDir, profiles,
                   cur, manifest, preferences, versionDir, outcome, launches,
                   failure, others>>

\* the installer's promise rejected: the branch's catch rethrows, the outer
\* catch returns Promise.reject(error), yargs' fail handler exits with 1
CommandRejects ==
    /\ pc = "threw"
    /\ cmd.state = "running"
    /\ cmd' = [state |-> "rejected", loggedSuccess |-> FALSE, exitCode |-> 1]
    /\ pc' = "done"
    /\ steps' = steps
    /\ UNCHANGED <<constVars, histVars, registry, fs, downloadDir, profiles,
                   cur, manifest, preferences, versionDir, outcome, launches,
                   failure, others>>

\* the same command is run again on the machine as the run before left it
RunAgain ==
    /\ pc = "done"
    /\ run < MaxRuns
    /\ browser \in {"vivaldi", "opera"}
    /\ platform = "posix"
    /\ run' = run + 1
    /\ prev' = Append(prev, [outcome |-> outcome, versionDir |-> versionDir,
                             cmd |-> cmd])
    /\ fs0' = fs
    /\ pc' = "construct"
    /\ profiles' = <<>>
    /\ cur' = 0
    /\ manifest' = FallbackManifest
    /\ preferences' = EmptyObj
    /\ versionDir' = <<>>
    /\ outcome' = [p \in DOMAIN fs |-> Pending]
    /\ launches' = <<>>
    /\ failure' = "none"
    /\ cmd' = [state |-> "running", loggedSuccess |-> FALSE, exitCode |-> -1]
    /\ steps' = <<>>
    /\ UNCHANGED <<constVars, registry, fs, downloadDir, others>>

RunNext ==
    \/ Construct
    \/ CloseBrowser
    \/ RegistryInstall
    \/ RelaunchRegistry
    \/ ResolveProfiles
    \/ Download
    \/ ParseManifest
    \/ ProfileBegin
    \/ CheckExisting
    \/ Extract
    \/ PatchPrefs
    \/ Relaunch
    \/ Cleanup
    \/ FirefoxConstruct
    \/ FirefoxCheckInstalled
    \/ FirefoxClose
    \/ FirefoxDownload
    \/ FirefoxInstallXpi
    \/ FirefoxSummary
    \/ CommandResolves
    \/ CommandRejects
    \/ RunAgain

Spec == RunInit /\ [][RunNext]_vars

\* ------------------------------------------- SpecLocate: getProfiles
\* the two places a browser's data can be looked for: the per-OS default
\* location and the directory of the installDir option
Roots == {"default", "installDir"}

\* the entries a data directory can hold, and the profile directories
\* among them:  dir.startsWith("Profile") || dir === "Default"
DirEntries == {"Default", "Profile 1", "Cache"}
IsProfileDir(dir) == dir \in {"Default", "Profile 1"}

\* the display names of profiles
Names == {"Work", "Home"}

\* Local State: missing, or its profile.info_cache, a map from directory
\* names to [name |-> display name]
NoLocalState == [kind |-> "missing", cache |-> EmptyObj]
LocalStates ==
    {NoLocalState} \cup
    {[kind |-> "json", cache |-> c] :
        c \in UNION {[D -> Names] : D \in SUBSET {"Default", "Profile 1"}}}

\* a data directory: whether it exists, its entries and its Local State
DataDirs ==
    [exists : BOOLEAN, entries : SUBSET DirEntries, localState : LocalStates]

\* the data directory under installDir in this model
InstallDirData ==
    [exists |-> TRUE, entries |-> {"Default"}, localState |-> NoLocalState]

\* what the locator is given
LocInputs ==
    [browser : {"vivaldi", "opera", "firefox"},
     disk : {[r \in Roots |-> IF r = "default" THEN d ELSE InstallDirData] :
                d \in {x \in DataDirs : x.exists \/ x.entries = {}}},
     options : [installDir : {"none", "installDir"}, profiles : SUBSET Names]]

\* getVivaldiPath / getOperaPath / getDefaultFirefoxProfilesDir: the path is
\* built from the home directory and the platform alone
DataRoot(o) == "default"

\* getVivaldiProfiles / getOperaProfiles: the profile directories of the
\* data directory
EnumeratedProfiles(disk, root) ==
    {[root |-> root, dir |-> d] : d \in {e \in disk[root].entries : IsProfileDir(e)}}

\* localState.profile.info_cache[path.basename(profile)]?.name, a name or
\* undefined
DisplayName(localState, dir) ==
    IF Has(localState.cache, dir) THEN localState.cache[dir] ELSE "undefined"

\* Vivaldi.getProfiles
VivaldiGetProfiles(disk, o) ==
    LET root == DataRoot(o)
        all == EnumeratedProfiles(disk, root)
        ls == disk[root].localState
    IN  IF ~disk[root].exists \/ all = {}
        THEN [threw |-> TRUE, profiles |-> {}]
        ELSE IF o.profiles = {}
        THEN [threw |-> FALSE, profiles |-> all]
        ELSE IF ls.kind = "missing"
        THEN [threw |-> TRUE, profiles |-> {}]
        ELSE [threw |-> FALSE,
              profiles |-> {p \in all : DisplayName(ls, p.dir) \in o.profiles}]

\* Opera.getProfiles
OperaGetProfiles(disk, o) ==
    LET root == DataRoot(o)
        all == EnumeratedProfiles(disk, root)
        ls == disk[root].localState
    IN  IF ~disk[root].exists \/ all = {}
        THEN [threw |-> TRUE, profiles |-> {}]
        ELSE IF o.profiles # {} /\ ls.kind # "missing"
        THEN [threw |-> FALSE,
              profiles |-> {p \in all : DisplayName(ls, p.dir) \in o.profiles}]
        ELSE [threw |-> FALSE, profiles |-> all]

\* FirefoxExtensionInstaller.getFirefoxProfiles: the profiles of
\* profiles.ini under the default directory, [] when there is none
FirefoxGetProfiles(disk, o) ==
    LET root == DataRoot(o)
    IN  IF ~disk[root].exists
        THEN [threw |-> FALSE, profiles |-> {}]
        ELSE [threw |-> FALSE, profiles |-> EnumeratedProfiles(disk, root)]

GetProfiles(b, disk, o) ==
    CASE b = "vivaldi" -> VivaldiGetProfiles(disk, o)
      [] b = "opera" -> OperaGetProfiles(disk, o)
      [] b = "firefox" -> FirefoxGetProfiles(disk, o)

LocInit ==
    /\ locIn \in LocInputs
    /\ locPc = "start"
    /\ locOut = [threw |-> FALSE, profiles |-> {}]
    /\ ScanIdleInit
    /\ VerIdle
    /\ CloseIdle
    /\ RunIdle
    /\ OpenIdle
    /\ RestIdle

Locate ==
    /\ locPc = "start"
    /\ locOut' = GetProfiles(locIn.browser, locIn.disk, locIn.options)
    /\ locPc' = "done"
    /\ UNCHANGED <<locIn, scanVars, verVars, closeVars, runVars, openVars,
                   restVars>>

LocNext == Locate

SpecLocate == LocInit /\ [][LocNext]_vars

\* ------------------------------------- SpecOpen: BrowserController.openWithUrl
\* the browsers of the switch statements, and a value of the argument that
\* none of their cases names
ChromiumFamily == {"chrome", "edge", "opera", "brave", "vivaldi"}
OpenBrowsers == Browsers \cup {"safari"}
OpenPlatforms == {"win32", "darwin", "linux"}
Urls == {"url1", "url2"}

OpenInputs ==
    [browser : OpenBrowsers, platform : OpenPlatforms,
     profileName : {"", "Work"}, url : Urls]

\* the profile flag each case of the three switch statements writes in front
\* of the profile name
ProfileFlag(os, b) ==
    CASE os = "win32" -> "--profile-directory="
      [] os = "darwin" /\ b = "firefox" -> "-P"
      [] os = "darwin" -> "--profile-directory="
      [] b = "firefox" -> "-P"
      [] OTHER -> "--profile-directory="

\* the command of one case:  ${profileName ? `<flag>"${profileName}"` : ""}
\* followed by the url
BuildCommand(in) ==
    [platform |-> in.platform,
     browser |-> in.browser,
     flag |-> IF in.profileName # ""
              THEN ProfileFlag(in.platform, in.browser) ELSE "",
     profileName |-> in.profileName,
     url |-> in.url]

\* the statement that follows each statement of the try block
OpenSequelNoDelay(step) ==
    CASE step = "exec" -> "close"
      [] step = "delay" -> "close"
      [] step = "close" -> "returned"
OpenSequel(step) ==
    CASE step = "exec" -> "delay"
      [] step = "delay" -> "close"
      [] step = "close" -> "returned"

OpenInit ==
    /\ openIn \in OpenInputs
    /\ openPc = "build"
    /\ openCommand = <<>>
    /\ openLog = <<>>
    /\ ScanIdleInit
    /\ VerIdle
    /\ CloseIdle
    /\ RunIdle
    /\ LocIdle
    /\ RestIdle

OpenUnchanged ==
    UNCHANGED <<openIn, scanVars, verVars, closeVars, runVars, locVars,
                restVars>>

\* the switch on the browser: a command, or the default case's throw, which
\* the catch block logs and rethrows
OpenBuild ==
    /\ openPc = "build"
    /\ IF openIn.browser \in Browsers
       THEN /\ openCommand' = BuildCommand(openIn)
            /\ openPc' = "exec"
       ELSE /\ openCommand' = openCommand
            /\ openPc' = "threw"
    /\ UNCHANGED openLog
    /\ OpenUnchanged

\* exec(command)
OpenExec ==
    /\ openPc = "exec"
    /\ openLog' = Append(openLog, [ev |-> "exec", browser |-> openCommand.browser])
    /\ openPc' = OpenSequel("exec")
    /\ UNCHANGED openCommand
    /\ OpenUnchanged

\* await new Promise((resolve) => setTimeout(resolve, 5000))
OpenDelay ==
    /\ openPc = "delay"
    /\ openLog' = Append(openLog, [ev |-> "delay", browser |-> openIn.browser])
    /\ openPc' = OpenSequel("delay")
    /\ UNCHANGED openCommand
    /\ OpenUnchanged

\* await BrowserController.close(browser), which never throws
OpenClose ==
    /\ openPc = "close"
    /\ openLog' = Append(openLog, [ev |-> "close", browser |-> openIn.browser])
    /\ openPc' = OpenSequel("close")
    /\ UNCHANGED openCommand
    /\ OpenUnchanged

OpenNext == OpenBuild \/ OpenExec \/ OpenDelay \/ OpenClose

SpecOpen == OpenInit /\ [][OpenNext]_vars

\* ------------------------------------------- SpecIni: parseProfilesIni
\* the number of [Profile<N>] sections of a profiles.ini
MaxSections == 2

\* the values a Path= line can hold: a relative path, a POSIX absolute
\* path, a drive-letter path and a UNC path
IniPaths == {"Profiles/a", "/abs/a", "C:/abs/a", "\\\\srv\\a"}

\* relativePath.startsWith("/") || /^[A-Za-z]:/.test(relativePath)
LooksAbsolute(path) == path \in {"/abs/a", "C:/abs/a"}

\* join(basePath, relativePath), and a path taken as it is given
BasePath == "base"
Join(base, path) == <<base, path>>
AsGiven(path) == <<path>>

\* what a [Profile<N>] section says
Sections ==
    [name : {"default-release"}, path : IniPaths, isRelative : BOOLEAN,
     default : BOOLEAN, pathFirst : BOOLEAN]

\* the lines of a section: the header, Name=, then Path= and IsRelative= in
\* either order, then Default=1 when it is the default profile
SectionLines(sec) ==
    LET pathLine == [key |-> "Path", value |-> sec.path]
        relLine == [key |-> "IsRelative",
                    value |-> IF sec.isRelative THEN "1" ELSE "0"]
    IN  <<[key |-> "[Profile", value |-> ""],
          [key |-> "Name", value |-> sec.name]>>
        \o (IF sec.pathFirst THEN <<pathLine, relLine>>
            ELSE <<relLine, pathLine>>)
        \o (IF sec.default THEN <<[key |-> "Default", value |-> "1"]>>
            ELSE <<>>)

\* profiles.ini: a [General] section, then the profile sections
RECURSIVE IniOf(_)
IniOf(secs) ==
    IF secs = <<>>
    THEN <<[key |-> "[General", value |-> ""],
           [key |-> "StartWithLastProfile", value |-> "1"]>>
    ELSE IniOf(SubSeq(secs, 1, Len(secs) - 1))
         \o SectionLines(secs[Len(secs)])

IniFiles == {IniOf(secs) : secs \in SeqsUpTo(Sections, MaxSections)}

\* currentProfile = { name: "", path: "", default: false }
NewProfile ==
    [name |-> "", path |-> <<>>, default |-> FALSE, isRelative |-> "undefined"]

\* the Path= branch: the first characters of the value decide
ResolvePath(current, value) ==
    IF LooksAbsolute(value) THEN AsGiven(value) ELSE Join(BasePath, value)

\* the branches of the forEach body for a line inside a profile section
ProfileLine(current, line) ==
    CASE line.key = "Name" -> [current EXCEPT !.name = line.value]
      [] line.key = "Path" ->
            [current EXCEPT !.path = ResolvePath(current, line.value)]
      [] line.key = "Default" /\ line.value = "1" ->
            [current EXCEPT !.default = TRUE]
      [] line.key = "IsRelative" ->
            [current EXCEPT !.isRelative = (line.value = "1")]
      [] OTHER -> current

IniInit ==
    /\ iniLines \in IniFiles
    /\ iniPos = 1
    /\ iniCur = <<>>
    /\ iniProfiles = <<>>
    /\ ScanIdleInit
    /\ VerIdle
    /\ CloseIdle
    /\ RunIdle
    /\ LocIdle
    /\ OpenIdle
    /\ XpiIdle
    /\ DlIdle
    /\ RaceIdle

IniUnchanged ==
    UNCHANGED <<iniLines, scanVars, verVars, closeVars, runVars, locVars,
                openVars, xpiVars, dlVars, raceVars>>

\* one turn of profilesIni.split("\n").forEach((line) => { ... })
IniLine ==
    /\ iniPos \in 1..Len(iniLines)
    /\ LET line == iniLines[iniPos]
       IN  IF line.key = "[Profile"
           THEN /\ iniProfiles' = IF iniCur # <<>>
                                  THEN Append(iniProfiles, iniCur)
                                  ELSE iniProfiles
                /\ iniCur' = NewProfile
           ELSE /\ iniProfiles' = iniProfiles
                /\ iniCur' = IF iniCur # <<>>
                             THEN ProfileLine(iniCur, line) ELSE iniCur
    /\ iniPos' = iniPos + 1
    /\ IniUnchanged

\* if (currentProfile) profiles.push(currentProfile); return profiles
IniReturn ==
    /\ iniPos = Len(iniLines) + 1
    /\ iniProfiles' = IF iniCur # <<>> THEN Append(iniProfiles, iniCur)
                      ELSE iniProfiles
    /\ iniCur' = iniCur
    /\ iniPos' = 0
    /\ IniUnchanged

IniNext == IniLine \/ IniReturn

SpecIni == IniInit /\ [][IniNext]_vars

\* ----------------- SpecXpi: FirefoxExtensionInstaller.installExtension
\* an add-on id is a pair: the string, and the Date.now() hashed into it
\* (0 when there is none).  The name installExtensionCommand passes, the id
\* the manifest of the XPI declares (browser_specific_settings.gecko.id),
\* and other add-ons' ids
FirefoxExtensionName == <<"smartlink-extension", 0>>
GeckoId == <<"smartlink@vaultys", 0>>
OtherAddonA == <<"a@other", 0>>
OtherAddonB == <<"b@other", 0>>

\* `random-${md5(Date.now())}@temporary.addon`
RandomAddonId(now) == <<"random", now>>

\* an add-on record of extensions.json as another party wrote it
OldAddon(id) ==
    [id |-> id, syncGUID |-> <<id, 0>>, installDate |-> 0,
     path |-> <<"extensions", id>>]

\* const newExtension = { id, syncGUID: md5(`${id}-${Date.now()}`), ...,
\* installDate, path, ... }
NewAddon(info, now) ==
    [id |-> info.id, syncGUID |-> <<info.id, now>>,
     installDate |-> info.installDate, path |-> info.path]

\* addons.filter((addon) => addon.id !== id), then addons.push(newExtension)
UpdateAddonsNoFilter(addons, entry) == Append(addons, entry)
UpdateAddons(addons, entry) ==
    Append(SelectSeq(addons, LAMBDA a : a.id # entry.id), entry)

\* updateExtensionsJson: extensionsData is { addons: [] } when the file is
\* missing or cannot be parsed; the file is then written
UpdateExtensionsJson(file, info, now) ==
    LET data == IF file.kind = "json" THEN file.json
                ELSE [k \in {"addons"} |-> <<>>]
        addons == IF Has(data, "addons") THEN data["addons"] ELSE <<>>
    IN  WrittenFile(Put(data, "addons",
                        UpdateAddons(addons, NewAddon(info, now))))

\* the extensions.json files a profile can hold
ExtensionsJsonFiles ==
    { MissingFile, CorruptFile,
      JsonFile([k \in {"schemaVersion"} |-> 36]),
      JsonFile([k \in {"schemaVersion", "addons"} |->
                  IF k = "addons" THEN <<OldAddon(OtherAddonA)>> ELSE 36]),
      JsonFile([k \in {"schemaVersion", "addons"} |->
                  IF k = "addons"
                  THEN <<OldAddon(OtherAddonA), OldAddon(GeckoId),
                         OldAddon(OtherAddonB)>>
                  ELSE 36]) }

\* a profile directory: the .xpi files of extensions/ (none, or one that
\* bears the name the command passes), and extensions.json
XpiProfiles ==
    [xpis : {{}, {FirefoxExtensionName}}, json : ExtensionsJsonFiles]

\* the profiles of profiles.ini; the first is the one findProfileDirectory
\* picks
XpiDisks == UNION {[1..n -> XpiProfiles] : n \in 1..MaxProfiles}

XpiInit ==
    /\ xpiOptions \in [forceReinstall : BOOLEAN]
    /\ xpiArchive \in {a \in [manifest : BOOLEAN, geckoId : BOOLEAN] :
                          a.geckoId => a.manifest}
    /\ xpiDisk \in XpiDisks
    /\ xpiDisk0 = xpiDisk
    /\ xpiRun = 1
    /\ xpiPc = "check"
    /\ xpiCur = 0
    /\ xpiId = <<>>
    /\ xpiLog = <<>>
    /\ ScanIdleInit
    /\ VerIdle
    /\ CloseIdle
    /\ RunIdle
    /\ LocIdle
    /\ OpenIdle
    /\ IniIdle
    /\ DlIdle
    /\ RaceIdle

XpiUnchanged ==
    UNCHANGED <<xpiArchive, scanVars, verVars, closeVars, runVars, locVars,
                openVars, iniVars, dlVars, raceVars>>

\* isExtensionInstalled(extensionId): existsSync(join(this.extensionsDir,
\* `${extensionId}.xpi`)), in the profile the constructor picked
IsExtensionInstalled(disk, id) == id \in disk[1].xpis

\* if (this.isExtensionInstalled(extensionId) && !forceReinstall) return true
XpiCheckInstalled ==
    /\ xpiPc = "check"
    /\ xpiPc' = IF /\ IsExtensionInstalled(xpiDisk, FirefoxExtensionName)
                   /\ ~xpiOptions.forceReinstall
                THEN "returned" ELSE "close"
    /\ xpiLog' = Append(xpiLog, "check")
    /\ UNCHANGED <<xpiOptions, xpiDisk, xpiDisk0, xpiRun, xpiCur, xpiId>>
    /\ XpiUnchanged

\* if (this.options.config) { if (await isFirefoxRunning()) close(...) }
XpiClose ==
    /\ xpiPc = "close"
    /\ \E running \in BOOLEAN :
         xpiLog' = IF running THEN Append(xpiLog, "close") ELSE xpiLog
    /\ xpiPc' = "download"
    /\ UNCHANGED <<xpiOptions, xpiDisk, xpiDisk0, xpiRun, xpiCur, xpiId>>
    /\ XpiUnchanged

\* xpiFilePath = await this.downloadExtension(id); a rejection is caught by
\* installExtension, which returns false
XpiDownload ==
    /\ xpiPc = "download"
    /\ \E ok \in BOOLEAN : xpiPc' = IF ok THEN "open" ELSE "returned"
    /\ xpiLog' = Append(xpiLog, "download")
    /\ UNCHANGED <<xpiOptions, xpiDisk, xpiDisk0, xpiRun, xpiCur, xpiId>>
    /\ XpiUnchanged

\* installXpi up to its loop: the manifest of the XPI and the id it
\* declares, a random id when it declares none
XpiOpenArchive ==
    /\ xpiPc = "open"
    /\ IF ~xpiArchive.manifest
       THEN /\ xpiPc' = "returned"
            /\ UNCHANGED <<xpiId, xpiCur>>
       ELSE /\ xpiId' = IF xpiArchive.geckoId THEN GeckoId
                        ELSE RandomAddonId(xpiRun)
            /\ xpiCur' = 1
            /\ xpiPc' = "profile"
    /\ UNCHANGED <<xpiOptions, xpiDisk, xpiDisk0, xpiRun, xpiLog>>
    /\ XpiUnchanged

\* one turn of installXpi's loop: the .xpi is written into the profile's
\* extensions directory, extensions.json is updated, Firefox is opened
XpiInstallProfile ==
    /\ xpiPc = "profile"
    /\ LET p == xpiCur
           info == [id |-> xpiId, installDate |-> xpiRun,
                    path |-> <<"extensions", xpiId>>]
       IN  xpiDisk' = [xpiDisk EXCEPT
                         ![p].xpis = @ \cup {xpiId},
                         ![p].json = UpdateExtensionsJson(@, info, xpiRun)]
    /\ xpiLog' = Append(xpiLog, "launch")
    /\ IF xpiCur < Len(xpiDisk)
       THEN xpiCur' = xpiCur + 1 /\ xpiPc' = "profile"
       ELSE xpiCur' = 0 /\ xpiPc' = "returned"
    /\ UNCHANGED <<xpiOptions, xpiDisk0, xpiRun, xpiId>>
    /\ XpiUnchanged

\* the command is run again, with or without --forceReinstall
XpiRunAgain ==
    /\ xpiPc = "returned"
    /\ xpiRun < MaxRuns
    /\ xpiRun' = xpiRun + 1
    /\ xpiOptions' \in [forceReinstall : BOOLEAN]
    /\ xpiDisk0' = xpiDisk
    /\ xpiPc' = "check"
    /\ xpiCur' = 0
    /\ xpiId' = <<>>
    /\ xpiLog' = <<>>
    /\ UNCHANGED xpiDisk
    /\ XpiUnchanged

XpiNext ==
    \/ XpiCheckInstalled
    \/ XpiClose
    \/ XpiDownload
    \/ XpiOpenArchive
    \/ XpiInstallProfile
    \/ XpiRunAgain

SpecXpi == XpiInit /\ [][XpiNext]_vars

\* ------------------------------------------ SpecDownload: downloadExtension
\* the number of chunks the body of the archive arrives in
MaxChunks == 3

\* the status codes a response can carry
Statuses == {200, 301, 302, 403, 404, 500}

DlInputs == [installer : {"vivaldi", "opera", "firefox"}, downloadDir : BOOLEAN]

\* the response callback of the first request
OnFirstResponse(status) ==
    CASE status \in {301, 302} -> [pc |-> "request2", result |-> "pending"]
      [] status = 200 -> [pc |-> "body", result |-> "pending"]
      [] OTHER -> [pc |-> "done", result |-> "rejected"]

\* the response callback of the request to response.headers.location
OnRedirectResponse(status) ==
    IF status # 200
    THEN [pc |-> "done", result |-> "rejected"]
    ELSE [pc |-> "body", result |-> "pending"]

DlInit ==
    /\ dlIn \in DlInputs
    /\ dlPc = "start"
    /\ dlStatuses = <<>>
    /\ dlFile = NoFile
    /\ dlResult = "pending"
    /\ ScanIdleInit
    /\ VerIdle
    /\ CloseIdle
    /\ RunIdle
    /\ LocIdle
    /\ OpenIdle
    /\ IniIdle
    /\ XpiIdle
    /\ RaceIdle

DlUnchanged ==
    UNCHANGED <<dlIn, scanVars, verVars, closeVars, runVars, locVars,
                openVars, iniVars, xpiVars, raceVars>>

\* the promise executor up to the first get(): no download directory
\* rejects, otherwise createWriteStream creates the file
DlStart ==
    /\ dlPc = "start"
    /\ IF ~dlIn.downloadDir
       THEN /\ dlResult' = "rejected"
            /\ dlPc' = "done"
            /\ dlFile' = dlFile
       ELSE /\ dlResult' = dlResult
            /\ dlPc' = "request1"
            /\ dlFile' = [dlFile EXCEPT !.exists = TRUE]
    /\ UNCHANGED dlStatuses
    /\ DlUnchanged

\* a request ends: its 'error' event (the file is unlinked, the promise
\* rejected), or a response with a status code
DlResponse ==
    /\ dlPc \in {"request1", "request2"}
    /\ \/ /\ dlFile' = NoFile
          /\ dlResult' = "rejected"
          /\ dlPc' = "done"
          /\ UNCHANGED dlStatuses
       \/ \E status \in Statuses :
            LET r == IF dlPc = "request1" THEN OnFirstResponse(status)
                     ELSE OnRedirectResponse(status)
            IN  /\ dlStatuses' = Append(dlStatuses, status)
                /\ dlPc' = r.pc
                /\ dlResult' = r.result
                /\ dlFile' = dlFile
    /\ DlUnchanged

\* response.pipe(file): a chunk is written; or the body ends, the file
\* emits 'finish' and the promise resolves; or the connection is lost in
\* the middle of the body: pipe leaves the file open, 'finish' never comes,
\* no handler is registered for it, the promise stays pending
DlBody ==
    /\ dlPc = "body"
    /\ \/ /\ dlFile.chunks < MaxChunks
          /\ dlFile' = [dlFile EXCEPT !.chunks = @ + 1]
          /\ UNCHANGED <<dlPc, dlResult>>
       \/ /\ dlFile.chunks = MaxChunks
          /\ dlFile' = [dlFile EXCEPT !.finished = TRUE]
          /\ dlResult' = "resolved"
          /\ dlPc' = "done"
       \/ /\ dlFile.chunks < MaxChunks
          /\ dlFile' = dlFile
          /\ dlResult' = dlResult
          /\ dlPc' = "done"
    /\ UNCHANGED dlStatuses
    /\ DlUnchanged

DlNext == DlStart \/ DlResponse \/ DlBody

SpecDownload == DlInit /\ [][DlNext]_vars

\* ------------------------- SpecRace: two installers, one Preferences file
\* the two installer processes, and the extension id each installs
Installers == {1, 2}
ConcurrentId == "concurrent-extension"
RaceId(i) == IF i = 1 THEN ExtensionId ELSE ConcurrentId

\* the Preferences files the two processes can find
RaceFiles ==
    { JsonFile(EmptyObj),
      JsonFile([browser |-> "b"]),
      JsonFile([browser |-> "b", extensions |-> OthersExtensions]),
      JsonFile([browser |-> "b", extensions |-> BothExtensions]) }

\* the record an installer writes for its extension
RaceEntry(i) ==
    NewSettingsEntry(RaceId(i), FallbackManifest,
                     VersionFormatted(FallbackVersion))

\* the object fs.writeFileSync serialises: the one the process parsed at the
\* top of the loop body, not the file as it is when the write happens
WriteSourceRereads(mem, file) == file.json
WriteSource(mem, file) == mem

RaceInit ==
    /\ raceFile \in RaceFiles
    /\ racePc = [i \in Installers |-> "read"]
    /\ raceMem = [i \in Installers |-> EmptyObj]
    /\ raceLog = <<>>
    /\ ScanIdleInit
    /\ VerIdle
    /\ CloseIdle
    /\ RunIdle
    /\ LocIdle
    /\ OpenIdle
    /\ IniIdle
    /\ XpiIdle
    /\ DlIdle

RaceUnchanged ==
    UNCHANGED <<scanVars, verVars, closeVars, runVars, locVars, openVars,
                iniVars, xpiVars, dlVars>>

\* preferences = JSON.parse(fs.readFileSync(preferenceFile, "utf8"))
RaceRead(i) ==
    /\ racePc[i] = "read"
    /\ raceMem' = [raceMem EXCEPT ![i] = raceFile.json]
    /\ racePc' = [racePc EXCEPT ![i] = "extract"]
    /\ raceLog' = Append(raceLog, [who |-> i, op |-> "read"])
    /\ UNCHANGED raceFile
    /\ RaceUnchanged

\* the version directory is made and the archive unpacked into it
RaceExtract(i) ==
    /\ racePc[i] = "extract"
    /\ racePc' = [racePc EXCEPT ![i] = "write"]
    /\ UNCHANGED <<raceFile, raceMem, raceLog>>
    /\ RaceUnchanged

\* the entries are set on the parsed object, and the object is written
RaceWrite(i) ==
    /\ racePc[i] = "write"
    /\ LET r == PatchPreferences("vivaldi", WriteSource(raceMem[i], raceFile),
                                 RaceId(i), RaceEntry(i).manifest,
                                 RaceEntry(i).path[2], FALSE)
       IN  /\ raceFile' = WrittenFile(r.json)
           /\ raceMem' = [raceMem EXCEPT ![i] = r.json]
    /\ racePc' = [racePc EXCEPT ![i] = "done"]
    /\ raceLog' = Append(raceLog, [who |-> i, op |-> "write"])
    /\ RaceUnchanged

RaceNext == \E i \in Installers : RaceRead(i) \/ RaceExtract(i) \/ RaceWrite(i)

SpecRace == RaceInit /\ [][RaceNext]_vars

\* ================================================================ claims

\* C1: for every buffer whose first ZIP signature is at offset k, for any k
\* from 0 up to and including length-4, both scans yield payload start k and
\* the buffer is treated as a valid archive.
C1_ScanYieldsFirstSignature ==
    (scanPc = "installed" /\ HasSignature(scanCrx.bytes)) =>
        /\ scanManifest.offset = FirstSignature(scanCrx.bytes)
        /\ ~scanManifest.invalid
        /\ scanInstall.offset = FirstSignature(scanCrx.bytes)

\* C2: for a buffer without any ZIP signature an invalid-archive-format error
\* reaches the caller of the extractor and of the installer's extraction; no
\* fallback manifest is returned in its place, and no slice starting at
\* offset 0 is written out and handed to the unzip step.
C2_NoSignatureSurfacesError ==
    (scanPc = "installed" /\ ~HasSignature(scanCrx.bytes)) =>
        /\ scanManifest.threw
        /\ scanManifest.manifest # FallbackManifest
        /\ scanInstall.threw
        /\ ~scanInstall.unzipped

\* the version a directory name stands for: drop "_0", turn "_" into "."
DirNameToVersion(name) ==
    LET body == SubSeq(name, 1, Len(name) - 2)
    IN  [i \in 1..Len(body) |-> IF body[i] = "_" THEN "." ELSE body[i]]

NoUnderscore(version) == \A i \in 1..Len(version) : version[i] # "_"

\* C3 as stated: the mapping from the manifest's version to the directory
\* name is total (also for a manifest without a version field) and no two
\* version strings share a directory name.
C3_TotalAndInjective ==
    verPc = "done" =>
        /\ ~verResult.threw
        /\ \A w \in VersionStrings :
              VersionFormatted(w) = verResult.name => w = verManifest.version

\* C3 as amended: a manifest with a version string gets the name made of the
\* version with every "." turned into "_" and "_0" appended; for versions
\* without an underscore the name determines the version, which is got back
\* by dropping "_0" and turning "_" into "."; a manifest without a version
\* field makes the step throw.
C3_InjectiveOnDottedVersions ==
    verPc = "done" =>
        /\ verResult.threw <=> ("version" \notin DOMAIN verManifest)
        /\ ~verResult.threw =>
             LET v == verManifest.version
                 n == verResult.name
             IN  /\ Len(n) = Len(v) + 2
                 /\ SubSeq(n, Len(v) + 1, Len(v) + 2) = <<"_", "0">>
                 /\ \A i \in 1..Len(n) : n[i] # "."
                 /\ \A i \in 1..Len(v) : v[i] # "." => n[i] = v[i]
                 /\ NoUnderscore(v) =>
                      /\ DirNameToVersion(n) = v
                      /\ \A w \in VersionStrings :
                            (NoUnderscore(w) /\ VersionFormatted(w) = n)
                                => w = v

\* the name of a version that ends in a dot
C3_Witness ==
    /\ verPc = "done"
    /\ ~verResult.threw
    /\ verManifest.version = <<"1", ".", "2", ".">>
    /\ verResult.name = <<"1", "_", "2", "_", "_", "0">>

\* C8: BrowserController.close(b) returns normally, without throwing, for
\* every supported browser and every outcome of the listing and kill
\* commands: it never ends in an error, and until it has returned it can
\* always take its next step.
C8_CloseNeverThrows ==
    /\ closePc # "threw"
    /\ closePc \in {"list", "kill"} => ENABLED CloseNext

\* close returned after a listing that failed and a kill that was denied
C8_Witness ==
    /\ closePc = "returned"
    /\ closeLog.killFailed # {}
    /\ closeLog.listFailed # {}

\* the loop of this run is past profile p
Passed(p) == cur > p

\* Vivaldi reads and parses Preferences before it looks at the version
\* directory; Opera looks at the version directory first
ReadsBeforeCheck(p) == browser = "vivaldi" /\ fs0[p].prefs.kind # "json"

Without(list, id) == SelectSeq(list, LAMBDA x : x # id)

\* every entry of old that does not belong to id is in new, unchanged
Preserved(old, new, id) ==
    /\ \A k \in DOMAIN old \ {"extensions"} : Has(new, k) /\ new[k] = old[k]
    /\ Has(old, "extensions") =>
          /\ Has(new, "extensions")
          /\ \A map \in {"settings", "opsettings", "external_extensions"} :
                Has(old.extensions, map) =>
                   /\ Has(new.extensions, map)
                   /\ \A i \in DOMAIN old.extensions[map] \ {id} :
                         /\ Has(new.extensions[map], i)
                         /\ new.extensions[map][i] = old.extensions[map][i]
          /\ \A list \in {"known_enabled", "pinned_extensions"} :
                Has(old.extensions, list) =>
                   /\ Has(new.extensions, list)
                   /\ Without(new.extensions[list], id)
                         = Without(old.extensions[list], id)

\* C5: a Preferences file the installer wrote holds every entry of the file
\* it read that does not belong to the installed id: the other top-level
\* keys, the other extensions' records in settings, opsettings and
\* external_extensions, the other ids of known_enabled and pinned_extensions
C5_OtherEntriesPreserved ==
    \A p \in DOMAIN fs :
        outcome[p].state = "installed" =>
           /\ fs0[p].prefs.kind = "json"
           /\ fs[p].prefs.kind = "json"
           /\ Preserved(fs0[p].prefs.json, fs[p].prefs.json, ExtensionId)

\* Opera wrote the Preferences of a profile that held another extension's
\* entries and an older record of this one
C5_Witness ==
    /\ browser = "opera"
    /\ \E p \in DOMAIN fs :
          /\ outcome[p].state = "installed"
          /\ fs0[p].prefs = JsonFile([browser |-> "b",
                                      extensions |-> BothExtensions])
          /\ fs[p].prefs.layout = "pretty"
          /\ fs[p].prefs.json.extensions.opsettings[ExtensionId].path
                = <<ExtensionId, versionDir>>

\* the archive holds a manifest.json with a version
ArchiveHasVersion ==
    /\ ManifestOf(archive).kind = "json"
    /\ Has(ManifestOf(archive).json, "version")

\* C6: Vivaldi, per-profile path, a profile whose Preferences is a JSON
\* object without 'extensions': installing id X from an archive whose
\* manifest version is V ends with settings[X].path = X/dirname(V) and with
\* the directory Extensions/X/dirname(V) holding the archive's files
C6_PathAndDirectoryOfArchiveVersion ==
    \A p \in DOMAIN fs :
        ( /\ browser = "vivaldi"
          /\ ArchiveHasVersion
          /\ outcome[p].state = "installed"
          /\ fs0[p].prefs.kind = "json"
          /\ ~Has(fs0[p].prefs.json, "extensions") )
        => LET d == VersionFormatted(ManifestOf(archive).json.version)
           IN  /\ fs[p].prefs.json.extensions.settings[ExtensionId].path
                     = <<ExtensionId, d>>
               /\ fs[p].ver[d].exists
               /\ \A f \in ArchiveFiles : fs[p].ver[d].files[f] = "arc"

\* the directories one extraction of the run's archive into a directory
\* that is not there can produce
FreshExtractions ==
    {ExtractInto(NoDir, archive, envOk, partial) :
        envOk \in BOOLEAN, partial \in PartialUnzips(archive)}

C9_FailurePropagates ==
    (pc = "done" /\ failure \in {"download", "profiles", "registry"})
    => /\ cmd.state = "rejected"
       /\ ~cmd.loggedSuccess
       /\ cmd.exitCode = 1

\* the profiles of the run where a step confined to the profile failed
FailedProfiles == {p \in DOMAIN fs : outcome[p].state = "failed"}

\* C10: a failure confined to one profile does not abort the batch: every
\* other profile is processed, and the run reaches the cleanup step
C10_ProfileFailureConfined ==
    (pc = "done" /\ Len(profiles) > 1 /\ failure = "parse")
    => /\ \A q \in DOMAIN fs \ FailedProfiles :
             outcome[q].state \in {"installed", "skipped", "noprefs"}
       /\ downloadDir = NoDownloadDir
       /\ cmd.state = "resolved"

\* C11: on every way the installer's top-level call ends, by returning or
\* by throwing, the download directory created for the run has been removed
C11_CleanupUnconditional ==
    pc \in {"returned", "threw"} => ~downloadDir.exists

\* C12: the browser is launched with a configuration URL only in a run
\* where both smartLinkUrl and secret were supplied
C12_RelaunchOnlyWithConfig ==
    launches # <<>> => (options.config.smartLinkUrl /\ options.config.secret)

\* the place of a step in the order close, resolve, download, manifest,
\* per-profile steps, cleanup
StepRank(s) ==
    CASE s = "init" -> 0
      [] s = "close" -> 1
      [] s = "resolve" -> 2
      [] s = "download" -> 3
      [] s = "manifest" -> 4
      [] s \in {"profile", "check", "extract", "patch", "relaunch"} -> 5
      [] s = "cleanup" -> 6
      [] OTHER -> 7

\* the run takes the per-profile path (not the Windows registry path)
PerProfilePath == ~(browser = "vivaldi" /\ platform = "win32")

\* C15: on the per-profile path the steps of a run come in the order close,
\* resolve profiles, download, parse manifest, then per profile check,
\* extract, patch, relaunch, then cleanup: no step of an earlier stage
\* follows one of a later stage, and the close step comes before the
\* profile resolution and before every step on a profile
C15_LinearOrder ==
    PerProfilePath =>
       /\ \A i, j \in DOMAIN steps :
             i < j => StepRank(steps[i]) <= StepRank(steps[j])
       /\ \A j \in DOMAIN steps :
             StepRank(steps[j]) >= 2 =>
                \E i \in 1..(j - 1) : steps[i] = "close"
       /\ \A j \in DOMAIN steps \ {1} :
             /\ steps[j] = "extract" => steps[j - 1] = "check"
             /\ steps[j] = "patch" => steps[j - 1] = "extract"
             /\ steps[j] = "relaunch" => steps[j - 1] = "patch"

\* C19: on the registry path the entry is written to HKLM first and, when
\* that fails, to HKCU; the install fails only when both writes were tried
\* and failed
C19_UserHiveFallback ==
    (pc \in {"returned", "threw", "relaunch_registry"}
        /\ steps # <<>> /\ steps[Len(steps)] \in {"registry"})
    => /\ "HKLM" \in registry.tried
       /\ failure = "registry" =>
             /\ registry.tried = {"HKLM", "HKCU"}
             /\ registry.written = {}
       /\ failure # "registry" => registry.written # {}

\* C13: with an installDir supplied, every profile the locator returns lies
\* under installDir, the default location is not used, and the profiles
\* that are under installDir are found
C13_InstallDirIsUsed ==
    (locPc = "done" /\ locIn.options.installDir = "installDir")
    => /\ \A p \in locOut.profiles : p.root = "installDir"
       /\ (locIn.options.profiles = {}
            /\ EnumeratedProfiles(locIn.disk, "installDir") # {})
          => /\ ~locOut.threw
             /\ locOut.profiles = EnumeratedProfiles(locIn.disk, "installDir")

\* C14: with a non-empty set of profile names, Vivaldi's and Opera's
\* getProfiles return exactly the enumerated profiles whose display name in
\* Local State is in the set, also when Local State is absent or has no
\* entry for a directory
C14_NameFilterExact ==
    ( /\ locPc = "done"
      /\ locIn.browser \in {"vivaldi", "opera"}
      /\ locIn.options.profiles # {}
      /\ EnumeratedProfiles(locIn.disk, DataRoot(locIn.options)) # {} )
    => LET root == DataRoot(locIn.options)
           ls == locIn.disk[root].localState
       IN  /\ ~locOut.threw
           /\ locOut.profiles =
                 {p \in EnumeratedProfiles(locIn.disk, root) :
                     DisplayName(ls, p.dir) \in locIn.options.profiles}

\* C18: when close has returned, the processes it issued a terminate command
\* for are, for every alias, exactly the listed processes of that alias
\* other than the caller's own, also when an earlier terminate command of
\* the same alias failed
C18_EveryMatchTerminated ==
    closePc = "returned"
    => closeLog.issued = {m \in closeLog.listed : m[2] # MyPid}

\* the events of a complete call for browser b
FullOpenLog(b) ==
    <<[ev |-> "exec", browser |-> b], [ev |-> "delay", browser |-> b],
      [ev |-> "close", browser |-> b]>>

\* C16: openWithUrl launches, waits, then closes the same browser, in that
\* order: the events so far are always a prefix of launch, delay, close;
\* it returns only after the close; and for an unsupported browser it
\* throws with nothing launched or closed
C16_LaunchDelayClose ==
    /\ Len(openLog) <= 3
    /\ openLog = SubSeq(FullOpenLog(openIn.browser), 1, Len(openLog))
    /\ openPc = "returned" => openLog = FullOpenLog(openIn.browser)
    /\ openPc = "threw" => (openLog = <<>> /\ openIn.browser \notin Browsers)
    /\ openIn.browser \notin Browsers => openPc \in {"idle", "build", "threw"}

\* a call that launched vivaldi has returned
C16_Witness ==
    /\ openPc = "returned"
    /\ openIn.browser = "vivaldi"
    /\ openLog[1].ev = "exec"
    /\ openLog[3].ev = "close"

\* C17: with a profile name, the command carries --profile-directory= for
\* the Chromium family and -P for firefox, on win32, darwin and linux
C17_ProfileFlagByFamily ==
    (openCommand # <<>> /\ openIn.profileName # "")
    => openCommand.flag = IF openIn.browser \in ChromiumFamily
                          THEN "--profile-directory=" ELSE "-P"

\* the 'extensions' object of a parsed Preferences, {} when it has none
ExtensionsOf(json) ==
    IF Has(json, "extensions") THEN json["extensions"] ELSE EmptyObj

\* C20: Opera, a profile whose Preferences is parseable JSON without an
\* extension-settings map: once the profile's directory is unpacked and the
\* Preferences step has run, the profile is installed without error, the
\* written Preferences holds the record of the extension id, and no map of
\* other extensions' settings has become empty
C20_OperaCreatesSettingsMap ==
    \A p \in DOMAIN fs :
        ( /\ browser = "opera"
          /\ fs0[p].prefs.kind = "json"
          /\ ~Has(ExtensionsOf(fs0[p].prefs.json), "opsettings")
          /\ outcome[p].unzip # "none"
          /\ outcome[p].state # "extracted" )
        => /\ outcome[p].state = "installed"
           /\ fs[p].prefs.kind = "json"
           /\ Has(ExtensionsOf(fs[p].prefs.json), "opsettings")
           /\ Has(ExtensionsOf(fs[p].prefs.json)["opsettings"], ExtensionId)
           /\ Has(ExtensionsOf(fs0[p].prefs.json), "settings")
              => ExtensionsOf(fs[p].prefs.json)["settings"]
                    = ExtensionsOf(fs0[p].prefs.json)["settings"]

\* the sections a profiles.ini of the model was written from
SectionsOf(lines) ==
    CHOOSE secs \in SeqsUpTo(Sections, MaxSections) : IniOf(secs) = lines

\* C21: parseProfilesIni returns one record per [Profile<N>] section, with
\* the section's name, default = true exactly for Default=1, and the path
\* joined to the directory of profiles.ini when IsRelative=1 and taken as
\* given when IsRelative=0, whatever the order of the lines and the first
\* character of the path
C21_PathGovernedByIsRelative ==
    (iniPos = 0 /\ iniLines # <<>>)
    => LET secs == SectionsOf(iniLines)
       IN  /\ Len(iniProfiles) = Len(secs)
           /\ \A i \in 1..Len(secs) :
                 /\ iniProfiles[i].name = secs[i].name
                 /\ iniProfiles[i].default = secs[i].default
                 /\ iniProfiles[i].path =
                       IF secs[i].isRelative
                       THEN Join(BasePath, secs[i].path)
                       ELSE AsGiven(secs[i].path)

\* the addons array of an extensions.json, [] when the file has none
AddonsOf(file) ==
    IF file.kind = "json" /\ Has(file.json, "addons")
    THEN file.json["addons"] ELSE <<>>

\* updateExtensionsJson has run for profile p in this run
XpiUpdated(p) ==
    /\ xpiId # <<>>
    /\ xpiPc = "returned" \/ (xpiPc = "profile" /\ xpiCur > p)

\* C22: after updateExtensionsJson for id X on a profile, addons holds
\* exactly one entry with id X, it is the last element, and the entries of
\* other ids are those of the file before, unchanged and in the same order,
\* however often X is installed
C22_OneEntryLastOthersKept ==
    \A p \in DOMAIN xpiDisk :
        XpiUpdated(p) =>
            LET addons == AddonsOf(xpiDisk[p].json)
                before == AddonsOf(xpiDisk0[p].json)
            IN  /\ addons # <<>>
                /\ {i \in DOMAIN addons : addons[i].id = xpiId}
                      = {Len(addons)}
                /\ SelectSeq(addons, LAMBDA a : a.id # xpiId)
                      = SelectSeq(before, LAMBDA a : a.id # xpiId)

\* the second run installed the id again into a profile that held the entry
\* of the first run and another add-on's entry
C22_Witness ==
    /\ xpiRun = 2
    /\ xpiPc = "returned"
    /\ xpiId = GeckoId
    /\ \E i \in DOMAIN AddonsOf(xpiDisk0[1].json) :
          AddonsOf(xpiDisk0[1].json)[i].syncGUID = <<GeckoId, 1>>
    /\ Len(AddonsOf(xpiDisk[1].json)) = 3
    /\ AddonsOf(xpiDisk[1].json)[3].syncGUID = <<GeckoId, 2>>

\* the run before this one installed the extension into every profile:
\* each holds the .xpi installXpi writes and an extensions.json the
\* installer wrote with the entry of its id
XpiInstalledBefore ==
    /\ xpiRun > 1
    /\ \A p \in DOMAIN xpiDisk0 :
          /\ GeckoId \in xpiDisk0[p].xpis
          /\ xpiDisk0[p].json.layout = "pretty"
          /\ \E i \in DOMAIN AddonsOf(xpiDisk0[p].json) :
                AddonsOf(xpiDisk0[p].json)[i].id = GeckoId

\* C23: a second Firefox run with forceReinstall = false, for an extension
\* a previous run installed, finds it installed: nothing is downloaded, the
\* browser is neither closed nor relaunched, and extensions.json and the
\* extensions directory of every profile are unchanged
C23_FirefoxSecondRunSkips ==
    (XpiInstalledBefore /\ ~xpiOptions.forceReinstall)
    => /\ xpiLog \in {<<>>, <<"check">>}
       /\ xpiPc \in {"check", "returned"}
       /\ xpiDisk = xpiDisk0

\* C29: a browser state file with malformed JSON is left as it is on disk,
\* never overwritten with newly synthesized content; for Firefox the file
\* is extensions.json
C29_MalformedFileUntouched ==
    \A p \in DOMAIN xpiDisk :
        xpiDisk0[p].json.kind = "corrupt" => xpiDisk[p].json = xpiDisk0[p].json

\* the status sequences of a download that may resolve
GoodStatuses == {<<200>>, <<301, 200>>, <<302, 200>>}

\* C24: downloadExtension resolves only on 200, or on 301/302 followed by
\* 200, and only once the file is completely written; when the call has
\* nothing more to wait for, the promise is settled, and it is rejected for
\* every other status sequence and for every transport error
C24_SettlesOnce ==
    /\ dlResult = "resolved"
       => /\ dlStatuses \in GoodStatuses
          /\ dlFile.finished
          /\ dlFile.chunks = MaxChunks
    /\ dlPc = "done"
       => /\ dlResult \in {"resolved", "rejected"}
          /\ dlResult = "resolved" <=>
                (dlStatuses \in GoodStatuses /\ dlFile.finished)

\* the run has the manifest extractManifestFromCrx returned
ManifestParsed ==
    /\ browser \in {"vivaldi", "opera"}
    /\ Includes(steps, "manifest")

\* C25 as stated: manifest extraction never aborts the installation, and
\* the manifest the per-profile loop uses is always defined and has a
\* version
C25_ManifestAlwaysHasVersion ==
    /\ failure # "manifest"
    /\ ManifestParsed => Has(manifest, "version")

\* C25 as amended: extractManifestFromCrx never makes the run fail; the
\* manifest the loop uses is the fallback manifest, which has a version, or
\* the manifest.json of the archive as it was parsed; it is the archive's
\* only when a signature was found past offset 0 in a well-formed archive;
\* and it lacks a version only when it is the archive's manifest.json and
\* that has none
C25_FallbackOnEveryFailure ==
    /\ failure # "manifest"
    /\ ManifestParsed =>
          /\ \/ manifest = FallbackManifest
             \/ /\ ManifestOf(archive).kind = "json"
                /\ manifest = ManifestOf(archive).json
                /\ ZipStartOffset(archive.bytes) > 0
                /\ archive.payload = "valid"
          /\ ~Has(manifest, "version") =>
                /\ ManifestOf(archive).kind = "json"
                /\ manifest = ManifestOf(archive).json
          /\ (ManifestOf(archive).kind # "json"
                \/ ~HasSignature(archive.bytes)
                \/ ZipStartOffset(archive.bytes) = 0
                \/ archive.payload # "valid")
             => (manifest = FallbackManifest /\ Has(manifest, "version"))

\* the loop runs with the fallback manifest for an archive without a ZIP
\* signature
C25_Witness ==
    /\ ManifestParsed
    /\ pc = "check"
    /\ ~HasSignature(archive.bytes)
    /\ manifest = FallbackManifest

\* the record the installer wrote for the extension in profile p
InstalledEntry(p) ==
    fs[p].prefs.json["extensions"][SettingsKey(browser)][ExtensionId]

\* what manifest.json of a version directory holds after this run wrote
\* it: the archive's manifest.json when it was unpacked, the run's manifest
\* when the catch block wrote it
OnDiskManifest(dir) ==
    IF dir.files["manifest.json"] = "arc"
    THEN ManifestOf(archive) ELSE [kind |-> "json", json |-> manifest]

\* C26: after a profile was patched, the manifest recorded in the entry,
\* and the version in its path and in the name of the version directory,
\* are those of the manifest.json in that directory, for every archive
C26_EntryMatchesDisk ==
    \A p \in DOMAIN fs :
        (outcome[p].state = "installed" /\ versionDir # <<>>) =>
            LET onDisk == OnDiskManifest(fs[p].ver[versionDir])
            IN  /\ fs[p].ver[versionDir].exists
                /\ onDisk.kind = "json"
                /\ InstalledEntry(p).manifest = onDisk.json
                /\ InstalledEntry(p).path = <<ExtensionId, versionDir>>
                /\ Has(onDisk.json, "version")
                /\ versionDir = VersionFormatted(onDisk.json.version)

\* the place of an installer's read or write in the log
RaceAt(i, op) ==
    CHOOSE k \in DOMAIN raceLog : raceLog[k] = [who |-> i, op |-> op]

\* the installer that wrote the file last, and the other one
LastWriter == raceLog[Len(raceLog)].who
OtherInstaller(i) == 3 - i

\* the settings map of the Preferences file
RaceSettings ==
    IF Has(raceFile.json, "extensions")
       /\ Has(raceFile.json["extensions"], "settings")
    THEN raceFile.json["extensions"]["settings"] ELSE EmptyObj

\* the file holds the record installer i wrote
HoldsEntryOf(i) ==
    /\ Has(RaceSettings, RaceId(i))
    /\ RaceSettings[RaceId(i)] = RaceEntry(i)

\* C27: nothing locks Preferences.  When both installers are done, the file
\* is what the last writer made of the object it had read: if it read before
\* the other installer wrote, the other's entry is not in the file (the last
\* writer wins); if it read after, both entries are there
C27_LastWriterWins ==
    (\A i \in Installers : racePc[i] = "done")
    => LET w == LastWriter
           o == OtherInstaller(w)
       IN  /\ raceLog[Len(raceLog)].op = "write"
           /\ HoldsEntryOf(w)
           /\ HoldsEntryOf(o) <=> RaceAt(o, "write") < RaceAt(w, "read")

\* both installers wrote, and the entry the first one wrote is gone
C27_Witness ==
    /\ \A i \in Installers : racePc[i] = "done"
    /\ LastWriter = 1
    /\ RaceAt(1, "read") < RaceAt(2, "write")
    /\ raceMem[2]["extensions"]["settings"][ConcurrentId] = RaceEntry(2)
    /\ ~HoldsEntryOf(2)
    /\ Has(RaceSettings, OtherId)

\* how often id occurs in a list
Occurrences(list, id) == Len(SelectSeq(list, LAMBDA x : x = id))

\* a list of the 'extensions' object, [] when it has none
ListOf(json, key) ==
    IF Has(json, "extensions") /\ Has(json["extensions"], key)
    THEN json["extensions"][key] ELSE <<>>

\* C28: after Preferences was patched for id X, X is a key of
\* external_extensions, occurs exactly once in known_enabled, occurs exactly
\* once in pinned_extensions when pinExtension is true and is not added
\* there when it is false, however often the installation is repeated
C28_ListsHoldIdOnce ==
    \A p \in DOMAIN fs :
        outcome[p].state = "installed" =>
            LET new == fs[p].prefs.json
                old == fs0[p].prefs.json
            IN  /\ Has(new["extensions"]["external_extensions"], ExtensionId)
                /\ Occurrences(ListOf(new, "known_enabled"), ExtensionId) = 1
                /\ options.pinExtension =>
                      Occurrences(ListOf(new, "pinned_extensions"),
                                  ExtensionId) = 1
                /\ ~options.pinExtension =>
                      ListOf(new, "pinned_extensions")
                         = ListOf(old, "pinned_extensions")

\* the second forced installation with pinExtension patched a profile the
\* first one had patched
C28_Witness ==
    /\ run = 2
    /\ options.forceReinstall
    /\ options.pinExtension
    /\ \E p \in DOMAIN fs :
          /\ prev[1].outcome[p].state = "installed"
          /\ outcome[p].state = "installed"
          /\ Includes(ListOf(fs0[p].prefs.json, "pinned_extensions"),
                      ExtensionId)
          /\ Occurrences(ListOf(fs[p].prefs.json, "pinned_extensions"),
                         ExtensionId) = 1

\* the settings map of a Preferences file that holds the installer's
\* records, {} when the file has none
SettingsOf(file) ==
    IF file.kind = "json" /\ Has(file.json, "extensions")
       /\ Has(file.json["extensions"], SettingsKey(browser))
    THEN file.json["extensions"][SettingsKey(browser)] ELSE EmptyObj

\* the extension is in neither the Extensions directory nor Preferences
ExtensionAbsent(prof) ==
    /\ ~prof.extDir
    /\ \A d \in DirNames : ~prof.ver[d].exists
    /\ ~Has(SettingsOf(prof.prefs), ExtensionId)

\* C30: a profile in which the extension was absent has, after a run of the
\* per-profile installer of Vivaldi or Opera that returned or threw, either
\* a version directory and a Preferences entry whose path names it, or
\* neither
C30_AllOrNothing ==
    \A p \in DOMAIN fs :
        ( /\ browser \in {"vivaldi", "opera"}
          /\ PerProfilePath
          /\ pc \in {"returned", "threw", "done"}
          /\ ExtensionAbsent(fs0[p]) )
        => \A d \in DirNames :
              fs[p].ver[d].exists
                 <=> /\ Has(SettingsOf(fs[p].prefs), ExtensionId)
                     /\ SettingsOf(fs[p].prefs)[ExtensionId].path
                           = <<ExtensionId, d>>

=============================================================================
